---- MODULE Spec2Model ----
(***************************************************************************)
(* Model of the questionnaire scanner (detect0.py, detection_cases.py).    *)
(*                                                                         *)
(* A scanned page is represented by what the OpenCV primitives return on   *)
(* it: the outcome of the scale-line search, the outcome of the scale-edge *)
(* search, whether the grey rectangle is detectable, the connected         *)
(* components of the band under the scale, and the quadrilateral           *)
(* candidates of detecter_cases, each with the connected components of its *)
(* interior.  Everything the Python code computes from those is computed   *)
(* here the way the code computes it.                                      *)
(***************************************************************************)
EXTENDS Integers, Sequences, FiniteSets, TLC

VARIABLES
    pc,          \* position of the running program
    template,    \* the template JSON read by main
    pages,       \* the page images returned by convert_from_path
    page_num,    \* loop counter of main (1-based)
    resultats,   \* resultats['pages'] of main
    sortie,      \* the output file: written or not, and its page records
    image,       \* the page image last given to analyser_page
    etapes,      \* the stages analyser_page ran on that image, in order
    page_data,   \* the value analyser_page returned for that image
    entree,      \* the argument of the pure function under check
    resultat,    \* the value the pure function returned for it
    horloge,         \* app.py: what datetime.now() reads, in seconds
    HISTORY_FILE,    \* app.py: the entries stored in history.json
    UPLOAD_FOLDER,   \* app.py: the files of uploads/, by name
    RESULTS_FOLDER,  \* app.py: the files of results/, by name
    requete,         \* app.py: each upload request, its position and locals
    telechargement   \* app.py: the last download request and its answer

varsServeur == <<horloge, HISTORY_FILE, UPLOAD_FOLDER, RESULTS_FOLDER,
                 requete, telechargement>>

vars == <<pc, template, pages, page_num, resultats, sortie, image, etapes,
          page_data, entree, resultat, horloge, HISTORY_FILE, UPLOAD_FOLDER,
          RESULTS_FOLDER, requete, telechargement>>

----------------------------------------------------------------------------
(* app.py: the server when it starts                                       *)

MaxUploads == 2      \* upload requests the server receives

Uploads == 1..MaxUploads

\* a request the server has not received yet; texts are sequences of
\* characters
RequeteNulle ==
    [pc |-> "attente", file |-> <<>>, timestamp |-> <<>>, filename |-> <<>>,
     base_name |-> <<>>, history |-> <<>>,
     reponse |-> [code |-> 0, json |-> <<>>, excel |-> <<>>]]

TelechargementNul == [filename |-> <<>>, code |-> 0, real_filename |-> <<>>]

\* lines 13-20: both folders exist and are empty (a folder is the set of
\* its files, each a name and a content), history.json is absent, which
\* load_history reads as the empty list
ServeurAuDepart ==
    /\ horloge = 0
    /\ HISTORY_FILE = <<>>
    /\ UPLOAD_FOLDER = {}
    /\ RESULTS_FOLDER = {}
    /\ requete = [u \in Uploads |-> RequeteNulle]
    /\ telechargement = TelechargementNul

----------------------------------------------------------------------------
(* Constants of the program                                                *)

TOLERANCE_X == 200
MIN_COMPOSANTES == 1
DISTANCE_MIN == 10
TOLERANCE_Y == 50
MARGE_CROP == 250
AIRE_MIN_BLOB == 200
LARGEUR_MAX_CHIFFRE == 45
NB_GRADUATIONS == 6

(* Bounds of the model                                                     *)

MaxPages == 2        \* pages in a batch
MaxCases == 3        \* quadrilateral candidates on a page (page specification)
MaxCandidats == 3    \* candidates given to dedupliquer_cases alone
MaxComposantes == 2  \* connected components inside a box interior

----------------------------------------------------------------------------
(* Generic helpers                                                         *)

Abs(n) == IF n < 0 THEN -n ELSE n

Min(a, b) == IF a <= b THEN a ELSE b

Range(s) == {s[i] : i \in 1..Len(s)}

RECURSIVE Somme(_)
Somme(s) == IF s = <<>> THEN 0 ELSE Head(s) + Somme(Tail(s))

RECURSIVE SeqsJusqua(_, _)
\* all sequences over S of length at most n
SeqsJusqua(S, n) ==
    IF n = 0 THEN {<<>>}
    ELSE LET P == SeqsJusqua(S, n - 1)
         IN  P \cup {Append(s, e) : s \in {t \in P : Len(t) = n - 1}, e \in S}

\* Python's sorted(s, key=...): a stable sort; cle[e] is the key of element e.
RECURSIVE Inserer(_, _, _)
Inserer(e, s, cle) ==
    IF s = <<>> THEN <<e>>
    ELSE IF cle[e] < cle[Head(s)] THEN <<e>> \o s
         ELSE <<Head(s)>> \o Inserer(e, Tail(s), cle)

RECURSIVE TriStable(_, _)
\* elements are inserted in input order, each after the elements already
\* placed whose key is not greater: equal keys keep their input order
TriStable(s, cle) ==
    IF s = <<>> THEN <<>>
    ELSE Inserer(s[Len(s)], TriStable(SubSeq(s, 1, Len(s) - 1), cle), cle)

----------------------------------------------------------------------------
(* detection_cases.py                                                      *)
(* A case is [x, y, w, h, aire, encre]: the bounding box and contour area  *)
(* detecter_cases reports, and encre, the areas of the connected           *)
(* components the page carries inside the box interior.                    *)

\* the distance test of line 83, on doubled coordinates to stay in integers:
\* centre = x + w/2, distance < distance_min
Proches(c1, c2, distance_min) ==
    LET ddx == (2 * c1.x + c1.w) - (2 * c2.x + c2.w)
        ddy == (2 * c1.y + c1.h) - (2 * c2.y + c2.h)
    IN  ddx * ddx + ddy * ddy < 4 * distance_min * distance_min

RECURSIVE GarderUniques(_, _, _)
\* the loop of lines 71-88 over the candidates left, cases_uniques so far
GarderUniques(reste, cases_uniques, distance_min) ==
    IF reste = <<>> THEN cases_uniques
    ELSE LET case == Head(reste)
             est_doublon == \E i \in 1..Len(cases_uniques) :
                                Proches(case, cases_uniques[i], distance_min)
         IN  GarderUniques(Tail(reste),
                           IF est_doublon THEN cases_uniques
                           ELSE Append(cases_uniques, case),
                           distance_min)

\* faulty variant: sorted by ascending area and turned round, which takes
\* candidates of equal area last given first
dedupliquer_cases_retourne(cases) ==
    IF cases = <<>> THEN <<>>
    ELSE LET croissant == TriStable(cases, [c \in Range(cases) |-> c.aire])
             cases_triees == [i \in 1..Len(croissant) |->
                                 croissant[Len(croissant) + 1 - i]]
         IN  GarderUniques(cases_triees, <<>>, DISTANCE_MIN)

\* faulty variant: candidates taken smallest area first
dedupliquer_cases_croissant(cases) ==
    IF cases = <<>> THEN <<>>
    ELSE LET cases_triees ==
                 TriStable(cases, [c \in Range(cases) |-> c.aire])
         IN  GarderUniques(cases_triees, <<>>, DISTANCE_MIN)

dedupliquer_cases(cases) ==
    IF cases = <<>> THEN <<>>
    ELSE LET cases_triees ==
                 TriStable(cases, [c \in Range(cases) |-> 0 - c.aire])
         IN  GarderUniques(cases_triees, <<>>, DISTANCE_MIN)

\* sorted(..., key=lambda c: (c['y'], c['x'])): tuples compare
\* lexicographically; coordinates are below 100000
TriYX(cases) == TriStable(cases, [c \in Range(cases) |-> c.y * 100000 + c.x])

\* faulty variant: rows are not sorted left to right
TriX_identite(cases) == cases

TriX(cases) == TriStable(cases, [c \in Range(cases) |-> c.x])

RECURSIVE GrouperLignes_chaine(_, _, _, _)
\* faulty variant: the reference y follows the last box appended
GrouperLignes_chaine(reste, lignes, ligne_courante, y_reference) ==
    IF reste = <<>> THEN Append(lignes, TriX(ligne_courante))
    ELSE LET case == Head(reste)
         IN  IF Abs(case.y - y_reference) <= TOLERANCE_Y
             THEN GrouperLignes_chaine(Tail(reste), lignes,
                                       Append(ligne_courante, case), case.y)
             ELSE GrouperLignes_chaine(Tail(reste),
                                       Append(lignes, TriX(ligne_courante)),
                                       <<case>>, case.y)

RECURSIVE GrouperLignes(_, _, _, _)
\* the loop of lines 114-127
GrouperLignes(reste, lignes, ligne_courante, y_reference) ==
    IF reste = <<>> THEN Append(lignes, TriX(ligne_courante))
    ELSE LET case == Head(reste)
         IN  IF Abs(case.y - y_reference) <= TOLERANCE_Y
             THEN GrouperLignes(Tail(reste), lignes,
                                Append(ligne_courante, case), y_reference)
             ELSE GrouperLignes(Tail(reste),
                                Append(lignes, TriX(ligne_courante)),
                                <<case>>, case.y)

regrouper_par_lignes(cases) ==
    IF cases = <<>> THEN <<>>
    ELSE LET cases_triees == TriYX(cases)
         IN  GrouperLignes(Tail(cases_triees), <<>>, <<cases_triees[1]>>,
                           cases_triees[1].y)

detecter_cases_completes(img) == TriYX(dedupliquer_cases(img.cases_brutes))

----------------------------------------------------------------------------
(* detect0.py: classification of one box                                   *)

\* interior of the box once the 25% margin is removed (lines 222-228)
AireInterieur(case) ==
    LET marge_x == case.w \div 4
        marge_y == case.h \div 4
    IN  (case.w - 2 * marge_x) * (case.h - 2 * marge_y)

\* count_nonzero(binaire): the foreground pixels are the union of the
\* connected components
PixelsNoirs(case) == Somme(case.encre)

\* faulty variant: the threshold itself counts as filled
DepasseSeuilRemplissage_large(noirs, aire) == 2 * noirs >= aire

\* ratio_noir > SEUIL_REMPLISSAGE, with SEUIL_REMPLISSAGE = 0.5:
\* noirs / aire > 1/2  (the double division is exact enough at these sizes)
DepasseSeuilRemplissage(noirs, aire) == 2 * noirs > aire

\* faulty variant: a component of exactly 10% counts as a stroke
GrosseComposante_large(area, aire) == 10 * area >= aire

\* area > taille_min, with taille_min = aire * 0.1 (lines 243, 250)
GrosseComposante(area, aire) == 10 * area > aire

analyser_case(case) ==
    LET aire == AireInterieur(case)
        noirs == PixelsNoirs(case)
        nb_grosses_composantes ==
            Cardinality({i \in 1..Len(case.encre) :
                             GrosseComposante(case.encre[i], aire)})
    IN  IF DepasseSeuilRemplissage(noirs, aire)
        THEN [type |-> "noire", info |-> <<noirs, aire>>]
        ELSE IF nb_grosses_composantes >= MIN_COMPOSANTES
             THEN [type |-> "traits", info |-> <<nb_grosses_composantes>>]
             ELSE [type |-> "vide", info |-> <<>>]

----------------------------------------------------------------------------
(* detect0.py: scale                                                       *)
(* An image is [ligne, bords, rectangle, blobs, cases_brutes]:             *)
(*   ligne      what trouver_ligne_echelle returns: found or not, and y    *)
(*   bords      what trouver_bords_ligne_echelle returns: found or not,    *)
(*              and the two x                                              *)
(*   rectangle  whether trouver_rectangle_gris would find the rectangle    *)
(*   blobs      the connected components of the band under the scale,      *)
(*              each [w, area, centroide10]: the centroid x in tenths      *)
(*   cases_brutes  what detecter_cases returns                             *)
(* "Absent" values (None, a missing key) are a flag next to the value.     *)
(* The strings 'cochée' and 'Échelle non détectée' are written without     *)
(* their accents.                                                          *)

EchelleNulle == [gauche |-> [x |-> 0, y |-> 0], droite |-> [x |-> 0, y |-> 0]]

\* faulty variant: the failure of the edge search is not looked at
detecter_echelle_seule_sans_bords(img) ==
    IF ~img.ligne.trouvee THEN [ok |-> FALSE, echelle |-> EchelleNulle]
    ELSE [ok |-> TRUE,
          echelle |-> [gauche |-> [x |-> img.bords.x_gauche, y |-> img.ligne.y],
                       droite |-> [x |-> img.bords.x_droite, y |-> img.ligne.y]]]

\* returns [ok, echelle]; ok = FALSE is the None of lines 40 and 45
detecter_echelle_seule(img) ==
    IF ~img.ligne.trouvee THEN [ok |-> FALSE, echelle |-> EchelleNulle]
    ELSE IF ~img.bords.trouves THEN [ok |-> FALSE, echelle |-> EchelleNulle]
    ELSE [ok |-> TRUE,
          echelle |-> [gauche |-> [x |-> img.bords.x_gauche, y |-> img.ligne.y],
                       droite |-> [x |-> img.bords.x_droite, y |-> img.ligne.y]]]

\* faulty variant: the difference taken the other way round
calculer_dx_inverse(a_template, echelle_template, a_reponse, echelle_reponse) ==
    IF ~a_template \/ ~a_reponse THEN 0
    ELSE echelle_template.gauche.x - echelle_reponse.gauche.x

\* a_template, a_reponse: the arguments are not None
calculer_dx(a_template, echelle_template, a_reponse, echelle_reponse) ==
    IF ~a_template \/ ~a_reponse THEN 0
    ELSE echelle_reponse.gauche.x - echelle_template.gauche.x

\* faulty variant: six intervals instead of five
XGraduation_six(echelle, score) ==
    LET x_crop_min == IF echelle.gauche.x - MARGE_CROP > 0
                      THEN echelle.gauche.x - MARGE_CROP ELSE 0
        x_gauche_crop == echelle.gauche.x - x_crop_min
    IN  x_gauche_crop + (score * (echelle.droite.x - echelle.gauche.x)) \div 6

\* x_grad of line 156: x_gauche_crop + int(score * largeur_graduation),
\* largeur_graduation = (x_droite - x_gauche) / 5
XGraduation(echelle, score) ==
    LET x_crop_min == IF echelle.gauche.x - MARGE_CROP > 0
                      THEN echelle.gauche.x - MARGE_CROP ELSE 0
        x_gauche_crop == echelle.gauche.x - x_crop_min
    IN  x_gauche_crop + (score * (echelle.droite.x - echelle.gauche.x)) \div 5

\* distances.index(min(distances)): the first graduation at least distance
ScoreProche(echelle, cx) ==
    LET distance(score) == Abs(cx - XGraduation(echelle, score))
        plus_proches == {sc \in 0..(NB_GRADUATIONS - 1) :
                            \A autre \in 0..(NB_GRADUATIONS - 1) :
                                distance(sc) <= distance(autre)}
    IN  CHOOSE sc \in plus_proches : \A autre \in plus_proches : sc <= autre

RECURSIVE AssocierGraduations(_, _, _)
\* the loop of lines 151-164
AssocierGraduations(blobs_crayonnages, echelle, scores_detectes) ==
    IF blobs_crayonnages = <<>> THEN scores_detectes
    ELSE LET score_proche == ScoreProche(echelle, Head(blobs_crayonnages).cx)
         IN  AssocierGraduations(Tail(blobs_crayonnages), echelle,
                 IF score_proche \in Range(scores_detectes)
                 THEN scores_detectes
                 ELSE Append(scores_detectes, score_proche))

\* the blobs of lines 117-136: the components of area > AIRE_MIN_BLOB,
\* cx = int(centroids[i][0]), the centroid being given in tenths of a pixel
BlobsInfo(img) ==
    LET IsSignificatif(b) == b.area > AIRE_MIN_BLOB
        significatifs == SelectSeq(img.blobs, IsSignificatif)
    IN  [i \in 1..Len(significatifs) |->
            [w |-> significatifs[i].w, area |-> significatifs[i].area,
             cx |-> significatifs[i].centroide10 \div 10]]

\* faulty variant: the digits are not set apart
coter_echelle_sans_largeur(img, a_echelle, echelle) ==
    IF ~a_echelle THEN <<>>
    ELSE LET scores_detectes ==
                 AssocierGraduations(BlobsInfo(img), echelle, <<>>)
         IN  TriStable(scores_detectes,
                       [sc \in Range(scores_detectes) |-> sc])

\* faulty variant: the scores are returned in the order of detection
coter_echelle_non_trie(img, a_echelle, echelle) ==
    IF ~a_echelle THEN <<>>
    ELSE LET IsCrayonnage(b) == b.w > LARGEUR_MAX_CHIFFRE
             blobs_crayonnages == SelectSeq(BlobsInfo(img), IsCrayonnage)
         IN  AssocierGraduations(blobs_crayonnages, echelle, <<>>)

coter_echelle(img, a_echelle, echelle) ==
    IF ~a_echelle THEN <<>>
    ELSE LET IsCrayonnage(b) == b.w > LARGEUR_MAX_CHIFFRE
             blobs_crayonnages == SelectSeq(BlobsInfo(img), IsCrayonnage)
             scores_detectes ==
                 AssocierGraduations(blobs_crayonnages, echelle, <<>>)
         IN  TriStable(scores_detectes,
                       [sc \in Range(scores_detectes) |-> sc])

----------------------------------------------------------------------------
(* detect0.py: matching                                                    *)

\* faulty variant: the tolerance bound included
PresDe_large(case_det, x_attendu) == Abs(case_det.x - x_attendu) <= TOLERANCE_X

\* the test of lines 316 and 502
PresDe(case_det, x_attendu) == Abs(case_det.x - x_attendu) < TOLERANCE_X

\* faulty variant: a box exactly TOLERANCE_X away counts as found
trouver_cases_template_manquantes_large(ligne_vides, cases_template, dx) ==
    LET indices == [i \in 1..Len(cases_template) |-> i - 1]
    IN  IF ligne_vides = <<>> THEN indices
        ELSE LET Manque(idx) ==
                     ~\E j \in 1..Len(ligne_vides) :
                         Abs(ligne_vides[j].x - (cases_template[idx + 1].x + dx))
                             <= TOLERANCE_X
             IN  SelectSeq(indices, Manque)

\* the template indices (0-based, ascending) with no detected box near
trouver_cases_template_manquantes(ligne_vides, cases_template, dx) ==
    LET indices == [i \in 1..Len(cases_template) |-> i - 1]
    IN  IF ligne_vides = <<>> THEN indices
        ELSE LET Manque(idx) ==
                     ~\E j \in 1..Len(ligne_vides) :
                         PresDe(ligne_vides[j], cases_template[idx + 1].x + dx)
             IN  SelectSeq(indices, Manque)

\* faulty variant: a missing box is reported at its template position, unshifted
Reponse_sans_dx(idx, ligne_vides, cases_template, dx, y_ligne, indices_manquants) ==
    LET case_tmpl == cases_template[idx + 1]
        trouvees == {j \in 1..Len(ligne_vides) :
                        PresDe(ligne_vides[j], case_tmpl.x + dx)}
    IN  IF idx \in Range(indices_manquants) \/ trouvees = {}
        THEN [index |-> idx,
              reponse |-> IF idx \in Range(indices_manquants) THEN "cochee"
                                                              ELSE "vide",
              x |-> case_tmpl.x, y |-> y_ligne, w |-> case_tmpl.w,
              h |-> case_tmpl.h]
        ELSE LET case_vide == ligne_vides[CHOOSE j \in trouvees :
                                             \A k \in trouvees : j <= k]
             IN  [index |-> idx, reponse |-> "vide", x |-> case_vide.x,
                  y |-> case_vide.y, w |-> case_vide.w, h |-> case_vide.h]

\* lines 484-525: one answer for template index idx
Reponse(idx, ligne_vides, cases_template, dx, y_ligne, indices_manquants) ==
    LET case_tmpl == cases_template[idx + 1]
        x_attendu == case_tmpl.x + dx
        trouvees == {j \in 1..Len(ligne_vides) : PresDe(ligne_vides[j], x_attendu)}
    IN  IF idx \in Range(indices_manquants)
        THEN [index |-> idx, reponse |-> "cochee", x |-> case_tmpl.x + dx,
              y |-> y_ligne, w |-> case_tmpl.w, h |-> case_tmpl.h]
        ELSE IF trouvees # {}
             THEN LET case_vide ==
                          ligne_vides[CHOOSE j \in trouvees :
                                          \A k \in trouvees : j <= k]
                  IN  [index |-> idx, reponse |-> "vide", x |-> case_vide.x,
                       y |-> case_vide.y, w |-> case_vide.w, h |-> case_vide.h]
             ELSE [index |-> idx, reponse |-> "vide", x |-> case_tmpl.x + dx,
                   y |-> y_ligne, w |-> case_tmpl.w, h |-> case_tmpl.h]

\* faulty variant: only the missing indices are reported
ReponsesOrdonnees_cochees(ligne_vides, cases_template, dx, y_ligne, indices_manquants) ==
    [i \in 1..Len(indices_manquants) |->
        Reponse(indices_manquants[i], ligne_vides, cases_template, dx, y_ligne,
                indices_manquants)]

\* reponses_ordonnees of lines 483-525
ReponsesOrdonnees(ligne_vides, cases_template, dx, y_ligne, indices_manquants) ==
    [i \in 1..Len(cases_template) |->
        Reponse(i - 1, ligne_vides, cases_template, dx, y_ligne,
                indices_manquants)]

\* y_ligne of lines 469-473
YLigne(ligne_vides, cases_template) ==
    IF ligne_vides # <<>>
    THEN Somme([j \in 1..Len(ligne_vides) |-> ligne_vides[j].y])
             \div Len(ligne_vides)
    ELSE IF cases_template # <<>> THEN cases_template[1].y ELSE 0

----------------------------------------------------------------------------
(* detect0.py: analyser_page                                               *)
(* A template page is [a_echelle, echelle, a_contenu, contenu];            *)
(* contenu maps the number k of 'question_k' to [a_cases, cases].          *)
(* a_xxx = FALSE: the key is missing from the JSON.                        *)

\* faulty variant: only the blackened boxes are set apart
EstVide_non_noire(case) == analyser_case(case).type # "noire"

EstVide(case) == analyser_case(case).type = "vide"

\* lines 426-453: the rows of boxes classified 'vide'
LignesVides(img) ==
    regrouper_par_lignes(SelectSeq(detecter_cases_completes(img), EstVide))

\* faulty variant: every question of the template is gone through
QuestionsTraitees_toutes(lignes_vides, contenu) ==
    {k \in 1..Cardinality(DOMAIN contenu) : k \in DOMAIN contenu}

\* the question numbers the loop of line 461 does not skip
QuestionsTraitees(lignes_vides, contenu) ==
    LET nb_questions == Min(Len(lignes_vides), Cardinality(DOMAIN contenu))
    IN  {k \in 1..nb_questions : k \in DOMAIN contenu}

\* lines 467-544 for question_k
ReponsesQuestion(k, lignes_vides, contenu, dx) ==
    LET ligne_vides == IF k <= Len(lignes_vides) THEN lignes_vides[k] ELSE <<>>
        cases_template == contenu[k].cases
        y_ligne == YLigne(ligne_vides, cases_template)
        indices_manquants ==
            trouver_cases_template_manquantes(ligne_vides, cases_template, dx)
    IN  [reponses |-> ReponsesOrdonnees(ligne_vides, cases_template, dx,
                                        y_ligne, indices_manquants)]

EtapesEchec == <<"detecter_echelle_seule">>

EtapesAvantQuestions ==
    <<"detecter_echelle_seule", "calculer_dx", "coter_echelle",
      "detecter_cases_completes", "analyser_case", "regrouper_par_lignes">>

EtapesCompletes == EtapesAvantQuestions \o <<"questions", "visualiser_cases">>

\* faulty variant: template_page['echelle'] instead of template_page.get('echelle')
analyser_page_strict(img, num, template_page) ==
    LET reponse == detecter_echelle_seule(img)
        dx == calculer_dx(template_page.a_echelle, template_page.echelle,
                          reponse.ok, reponse.echelle)
        lignes_vides == LignesVides(img)
        contenu == template_page.contenu
        traitees == QuestionsTraitees(lignes_vides, contenu)
    IN  IF ~template_page.a_echelle
        THEN [leve |-> TRUE, etapes |-> EtapesEchec,
              retour |-> [page |-> num, exception |-> "KeyError: echelle"]]
        ELSE IF ~reponse.ok
        THEN [leve |-> FALSE, etapes |-> EtapesEchec,
              retour |-> [page |-> num, erreur |-> "Echelle non detectee"]]
        ELSE IF ~template_page.a_contenu
        THEN [leve |-> TRUE, etapes |-> EtapesAvantQuestions,
              retour |-> [page |-> num, exception |-> "KeyError: contenu"]]
        ELSE IF \E k \in traitees : ~contenu[k].a_cases
        THEN [leve |-> TRUE, etapes |-> EtapesAvantQuestions \o <<"questions">>,
              retour |-> [page |-> num, exception |-> "KeyError: cases"]]
        ELSE [leve |-> FALSE, etapes |-> EtapesCompletes,
              retour |-> [page |-> num,
                          decalage_x |-> dx,
                          score_echelle |->
                              coter_echelle(img, reponse.ok, reponse.echelle),
                          questions |->
                              [k \in traitees |->
                                  ReponsesQuestion(k, lignes_vides, contenu, dx)]]]

\* returns [leve, etapes, retour]: leve = TRUE when a KeyError escapes
\* (a key of the template is missing), etapes are the stages run, retour
\* is the returned page record
analyser_page(img, num, template_page) ==
    LET reponse == detecter_echelle_seule(img)
        echelle_reponse == reponse.echelle
        dx == calculer_dx(template_page.a_echelle, template_page.echelle,
                          reponse.ok, echelle_reponse)
        scores_echelle == coter_echelle(img, reponse.ok, echelle_reponse)
        lignes_vides == LignesVides(img)
        contenu == template_page.contenu
        traitees == QuestionsTraitees(lignes_vides, contenu)
    IN  IF ~reponse.ok
        THEN [leve |-> FALSE, etapes |-> EtapesEchec,
              retour |-> [page |-> num, erreur |-> "Echelle non detectee"]]
        ELSE IF ~template_page.a_contenu
        THEN [leve |-> TRUE, etapes |-> EtapesAvantQuestions,
              retour |-> [page |-> num, exception |-> "KeyError: contenu"]]
        ELSE IF \E k \in traitees : ~contenu[k].a_cases
        THEN [leve |-> TRUE, etapes |-> EtapesAvantQuestions \o <<"questions">>,
              retour |-> [page |-> num, exception |-> "KeyError: cases"]]
        ELSE [leve |-> FALSE, etapes |-> EtapesCompletes,
              retour |-> [page |-> num,
                          decalage_x |-> dx,
                          score_echelle |-> scores_echelle,
                          questions |->
                              [k \in traitees |->
                                  ReponsesQuestion(k, lignes_vides, contenu, dx)]]]

----------------------------------------------------------------------------
(* Inputs                                                                  *)

CaseT(x, y) == [x |-> x, y |-> y, w |-> 40, h |-> 40]

CasesQ1 == <<CaseT(100, 1000), CaseT(300, 1000), CaseT(500, 1000),
             CaseT(700, 1000)>>

CasesQ2 == <<CaseT(100, 1100), CaseT(300, 1100)>>

EchelleTemplate ==
    [gauche |-> [x |-> 400, y |-> 200], droite |-> [x |-> 900, y |-> 200]]

Question(cases) == [a_cases |-> TRUE, cases |-> cases]

QuestionSansCases == [a_cases |-> FALSE, cases |-> <<>>]

PageT(a_echelle, a_contenu, contenu) ==
    [a_echelle |-> a_echelle,
     echelle |-> IF a_echelle THEN EchelleTemplate ELSE EchelleNulle,
     a_contenu |-> a_contenu,
     contenu |-> contenu]

Contenu12 == [k \in {1, 2} |-> IF k = 1 THEN Question(CasesQ1)
                                         ELSE Question(CasesQ2)]

Contenu1 == [k \in {1} |-> Question(CasesQ1)]

Contenu2Seul == [k \in {2} |-> Question(CasesQ2)]

Contenu1SansCases == [k \in {1, 2} |-> IF k = 1 THEN QuestionSansCases
                                                 ELSE Question(CasesQ2)]

Contenu2SansCases == [k \in {1, 2} |-> IF k = 1 THEN Question(CasesQ1)
                                                 ELSE QuestionSansCases]

\* template pages on which analyser_page never meets a missing key
PagesTBienFormees ==
    {PageT(TRUE, TRUE, Contenu12), PageT(TRUE, TRUE, Contenu1),
     PageT(TRUE, TRUE, Contenu2Seul)}

PagesTSansEchelle == {PageT(FALSE, TRUE, Contenu12)}

PagesTSansContenu == {PageT(TRUE, FALSE, <<>>)}

PagesTSansCases ==
    {PageT(TRUE, TRUE, Contenu1SansCases), PageT(TRUE, TRUE, Contenu2SansCases)}

TemplateVide == [a_pages |-> FALSE, page |-> PageT(FALSE, FALSE, <<>>)]

Templates ==
    {TemplateVide} \cup
    {[a_pages |-> TRUE, page |-> tp] :
        tp \in PagesTBienFormees \cup PagesTSansEchelle
                \cup PagesTSansContenu \cup PagesTSansCases}

\* a template with every required field
BienForme(t) ==
    /\ t.a_pages
    /\ t.page.a_echelle
    /\ t.page.a_contenu
    /\ \A k \in DOMAIN t.page.contenu : t.page.contenu[k].a_cases

\* horizontal shifts of the scanned sheet
Decalages == {0, 30}

EncreVide == <<>>

EncreTraits == <<60>>

EncreNoire == <<250>>

Case(x, y, aire, encre) ==
    [x |-> x, y |-> y, w |-> 40, h |-> 40, aire |-> aire, encre |-> encre]

\* the boxes a sheet shifted by d can show: the printed boxes of the two
\* questions, empty, the first two also ticked, and one box drawn 1px left
\* of the third, empty or blackened
CasesPossibles(d) ==
    {Case(x + d, y, 1600, EncreVide) :
        x \in {100, 300, 500, 700}, y \in {1000, 1100}}
    \cup {Case(x + d, y, 1600, EncreTraits) :
            x \in {100, 300}, y \in {1000, 1100}}
    \cup {Case(499 + d, y, 1500, encre) :
            y \in {1030, 1130}, encre \in {EncreVide, EncreNoire}}

BlobCrayon == [w |-> 60, area |-> 900, centroide10 |-> 5504]

BlobChiffre == [w |-> 30, area |-> 400, centroide10 |-> 3500]

Img(ligne_ok, bords_ok, d, rect, blobs, cases) ==
    [ligne |-> [trouvee |-> ligne_ok, y |-> 200],
     bords |-> [trouves |-> bords_ok, x_gauche |-> 400 + d,
                x_droite |-> 900 + d],
     rectangle |-> rect,
     blobs |-> blobs,
     cases_brutes |-> cases]

ImageNulle == Img(FALSE, FALSE, 0, FALSE, <<>>, <<>>)

\* position of a box in the order detecter_cases reports the contours
RangContour(e) == (e.y * 100000 + e.x) * 2 + Len(e.encre)

RECURSIVE EnSequence(_)
\* a set of boxes as the list detecter_cases reports: bottom-up, right to left
EnSequence(S) ==
    IF S = {} THEN <<>>
    ELSE LET c == CHOOSE e \in S : \A f \in S : RangContour(f) <= RangContour(e)
         IN  <<c>> \o EnSequence(S \ {c})

RECURSIVE SousEnsembles(_, _)
\* the subsets of S of at most n elements
SousEnsembles(S, n) ==
    IF n = 0 THEN {{}}
    ELSE LET P == SousEnsembles(S, n - 1)
         IN  P \cup {T \cup {e} : T \in P, e \in S}

\* the pages of the page specification
ImagesPage ==
    {Img(FALSE, TRUE, 0, TRUE, <<>>, <<>>), Img(TRUE, FALSE, 0, TRUE, <<>>, <<>>)}
    \cup UNION {{Img(TRUE, TRUE, d, TRUE, blobs, EnSequence(T)) :
                    T \in SousEnsembles(CasesPossibles(d), MaxCases),
                    blobs \in {<<>>, <<BlobCrayon, BlobChiffre>>}} :
                d \in Decalages}

\* the pages of a batch: scale line missing, scale edges missing, or a
\* readable page; the rectangle detectable or not
RangeeVide(d) ==
    <<Case(700 + d, 1000, 1600, EncreVide), Case(500 + d, 1000, 1600, EncreVide),
      Case(100 + d, 1000, 1600, EncreVide)>>

ImagesLot ==
    {Img(FALSE, TRUE, 0, rect, <<>>, RangeeVide(0)) : rect \in BOOLEAN}
    \cup {Img(TRUE, FALSE, 0, rect, <<>>, RangeeVide(0)) : rect \in BOOLEAN}
    \cup {Img(TRUE, TRUE, 30, rect, <<BlobCrayon>>, cases) :
            rect \in BOOLEAN,
            cases \in {<<>>, RangeeVide(30),
                       <<Case(130, 1100, 1600, EncreVide)>> \o RangeeVide(30)}}

----------------------------------------------------------------------------
(* detect0.py: main                                                        *)

SortieVide == [ecrit |-> FALSE, pages |-> <<>>]

Init ==
    /\ pc = "debut"
    /\ template = TemplateVide
    /\ pages = <<>>
    /\ page_num = 1
    /\ resultats = <<>>
    /\ sortie = SortieVide
    /\ image = ImageNulle
    /\ etapes = <<>>
    /\ page_data = [page |-> 0]
    /\ entree = <<>>
    /\ resultat = <<>>
    /\ ServeurAuDepart

\* lines 564-566: fewer than three arguments, usage message and exit(1)
LireArguments ==
    /\ pc = "debut"
    /\ \E nb_args \in {3, 4} :
          pc' = IF nb_args < 4 THEN "usage" ELSE "charger"
    /\ UNCHANGED varsServeur
    /\ UNCHANGED <<template, pages, page_num, resultats, sortie, image,
                   etapes, page_data, entree, resultat>>

\* lines 578-583: json.load, then template['pages'] raises KeyError when
\* the key is missing
ChargerTemplate ==
    /\ pc = "charger"
    /\ \E t \in Templates :
          /\ template' = t
          /\ pc' = IF t.a_pages THEN "convertir" ELSE "exception"
    /\ UNCHANGED varsServeur
    /\ UNCHANGED <<pages, page_num, resultats, sortie, image, etapes,
                   page_data, entree, resultat>>

\* lines 585-592
ConvertirPDF ==
    /\ pc = "convertir"
    /\ \E lot \in SeqsJusqua(ImagesLot, MaxPages) : pages' = lot
    /\ resultats' = <<>>
    /\ page_num' = 1
    /\ pc' = "boucle"
    /\ UNCHANGED varsServeur
    /\ UNCHANGED <<template, sortie, image, etapes, page_data, entree,
                   resultat>>

\* faulty variant: the loop stops at the first page whose record is an error
AnalyserPageSuivante_arret ==
    /\ pc = "boucle"
    /\ page_num <= Len(pages)
    /\ LET appel == analyser_page(pages[page_num], page_num, template.page)
       IN  /\ image' = pages[page_num]
           /\ etapes' = appel.etapes
           /\ page_data' = appel.retour
           /\ IF appel.leve
              THEN /\ pc' = "exception"
                   /\ UNCHANGED <<resultats, page_num>>
              ELSE /\ resultats' = Append(resultats, appel.retour)
                   /\ page_num' = IF "erreur" \in DOMAIN appel.retour
                                  THEN Len(pages) + 1 ELSE page_num + 1
                   /\ pc' = "boucle"
    /\ UNCHANGED varsServeur
    /\ UNCHANGED <<template, pages, sortie, entree, resultat>>

\* faulty variant: the template's scale is replaced by the one of the page
AnalyserPageSuivante_template_modifie ==
    /\ pc = "boucle"
    /\ page_num <= Len(pages)
    /\ LET appel == analyser_page(pages[page_num], page_num, template.page)
           reponse == detecter_echelle_seule(pages[page_num])
       IN  /\ image' = pages[page_num]
           /\ etapes' = appel.etapes
           /\ page_data' = appel.retour
           /\ template' = IF reponse.ok
                          THEN [template EXCEPT !.page.echelle = reponse.echelle]
                          ELSE template
           /\ IF appel.leve
              THEN /\ pc' = "exception"
                   /\ UNCHANGED <<resultats, page_num>>
              ELSE /\ resultats' = Append(resultats, appel.retour)
                   /\ page_num' = page_num + 1
                   /\ pc' = "boucle"
    /\ UNCHANGED varsServeur
    /\ UNCHANGED <<pages, sortie, entree, resultat>>

\* lines 594-597: one iteration of the loop over the pages
AnalyserPageSuivante ==
    /\ pc = "boucle"
    /\ page_num <= Len(pages)
    /\ LET appel == analyser_page(pages[page_num], page_num, template.page)
       IN  /\ image' = pages[page_num]
           /\ etapes' = appel.etapes
           /\ page_data' = appel.retour
           /\ IF appel.leve
              THEN /\ pc' = "exception"
                   /\ UNCHANGED <<resultats, page_num>>
              ELSE /\ resultats' = Append(resultats, appel.retour)
                   /\ page_num' = page_num + 1
                   /\ pc' = "boucle"
    /\ UNCHANGED varsServeur
    /\ UNCHANGED <<template, pages, sortie, entree, resultat>>

\* lines 599-600: json.dump of resultats once the loop is over
EcrireSortie ==
    /\ pc = "boucle"
    /\ page_num > Len(pages)
    /\ sortie' = [ecrit |-> TRUE, pages |-> resultats]
    /\ pc' = "fini"
    /\ UNCHANGED varsServeur
    /\ UNCHANGED <<template, pages, page_num, resultats, image, etapes,
                   page_data, entree, resultat>>

Next ==
    \/ LireArguments
    \/ ChargerTemplate
    \/ ConvertirPDF
    \/ AnalyserPageSuivante
    \/ EcrireSortie

Spec == Init /\ [][Next]_vars

----------------------------------------------------------------------------
(* analyser_page on one page, for every page of ImagesPage                 *)

PagesTPage == PagesTBienFormees \cup PagesTSansEchelle

InitPage ==
    /\ pc = "page"
    /\ template \in {[a_pages |-> TRUE, page |-> tp] : tp \in PagesTPage}
    /\ pages = <<>>
    /\ page_num = 1
    /\ resultats = <<>>
    /\ sortie = SortieVide
    /\ image = ImageNulle
    /\ etapes = <<>>
    /\ page_data = [page |-> 0]
    /\ entree = <<>>
    /\ resultat = <<>>
    /\ ServeurAuDepart

AppelAnalyserPage ==
    /\ pc = "page"
    /\ \E img \in ImagesPage :
          LET appel == analyser_page(img, page_num, template.page)
          IN  /\ ~appel.leve
              /\ image' = img
              /\ etapes' = appel.etapes
              /\ page_data' = appel.retour
    /\ pc' = "page_analysee"
    /\ UNCHANGED varsServeur
    /\ UNCHANGED <<template, pages, page_num, resultats, sortie, entree,
                   resultat>>

\* calculer_dx alone, each scale given or not
AppelCalculerDx ==
    /\ pc = "page"
    /\ \E a_reponse \in BOOLEAN, x_gauche \in {370, 400, 430} :
          LET echelle_reponse ==
                  IF a_reponse
                  THEN [gauche |-> [x |-> x_gauche, y |-> 200],
                        droite |-> [x |-> x_gauche + 500, y |-> 200]]
                  ELSE EchelleNulle
          IN  /\ entree' = [a_reponse |-> a_reponse,
                            echelle_reponse |-> echelle_reponse]
              /\ resultat' = calculer_dx(template.page.a_echelle,
                                         template.page.echelle,
                                         a_reponse, echelle_reponse)
    /\ pc' = "calculer_dx"
    /\ UNCHANGED varsServeur
    /\ UNCHANGED <<template, pages, page_num, resultats, sortie, image,
                   etapes, page_data>>

NextPage == AppelAnalyserPage \/ AppelCalculerDx

SpecPage == InitPage /\ [][NextPage]_vars

----------------------------------------------------------------------------
(* analyser_case on one box, for every box of CasesAClasser                *)

\* component areas around the two thresholds of a 20x20 interior (400 px):
\* 10% is 40, 50% is 200, 51% is 204
AiresEncre == {1, 36, 39, 40, 41, 44, 160, 198, 199, 200, 201, 204, 221}

CasesAClasser ==
    {c \in {[x |-> 100, y |-> 1000, w |-> w, h |-> h, aire |-> 1600,
             encre |-> encre] :
                w \in {40, 44}, h \in {40, 36},
                encre \in SeqsJusqua(AiresEncre, MaxComposantes)} :
        PixelsNoirs(c) <= AireInterieur(c)}

InitPur ==
    /\ pc = "pur"
    /\ template = TemplateVide
    /\ pages = <<>>
    /\ page_num = 1
    /\ resultats = <<>>
    /\ sortie = SortieVide
    /\ image = ImageNulle
    /\ etapes = <<>>
    /\ page_data = [page |-> 0]
    /\ entree = <<>>
    /\ resultat = <<>>
    /\ ServeurAuDepart

AppelAnalyserCase ==
    /\ pc = "pur"
    /\ \E case \in CasesAClasser :
          /\ entree' = case
          /\ resultat' = analyser_case(case)
    /\ pc' = "analyser_case"
    /\ UNCHANGED varsServeur
    /\ UNCHANGED <<template, pages, page_num, resultats, sortie, image,
                   etapes, page_data>>

NextCase == AppelAnalyserCase

SpecCase == InitPur /\ [][NextCase]_vars

----------------------------------------------------------------------------
(* dedupliquer_cases on one candidate list, for every list over Candidats  *)

\* contours of one glyph and of its neighbours: centres 5px apart, exactly
\* 10px apart along x, exactly 10px apart along the diagonal (8, 6), and
\* half a pixel closer with an odd width
Candidats ==
    {Case(x, y, aire, EncreVide) :
        x \in {100, 105, 108, 110}, y \in {1000, 1006}, aire \in {1500, 1600}}
    \cup {[x |-> 100, y |-> 1000, w |-> 41, h |-> 40, aire |-> aire,
           encre |-> EncreVide] : aire \in {1500, 1600, 1700}}

AppelDedupliquerCases ==
    /\ pc = "pur"
    /\ \E cases \in SeqsJusqua(Candidats, MaxCandidats) :
          /\ entree' = cases
          /\ resultat' = dedupliquer_cases(cases)
    /\ pc' = "dedupliquer_cases"
    /\ UNCHANGED varsServeur
    /\ UNCHANGED <<template, pages, page_num, resultats, sortie, image,
                   etapes, page_data>>

NextDedup == AppelDedupliquerCases

SpecDedup == InitPur /\ [][NextDedup]_vars

----------------------------------------------------------------------------
(* Properties of analyser_page on one page (SpecPage)                      *)

\* analyser_page returned a page record with question data
PageAnalysee == pc = "page_analysee" /\ "questions" \in DOMAIN page_data

\* the expected x of template index i (1-based here) of question k
XAttendu(k, i) == template.page.contenu[k].cases[i].x + page_data.decalage_x

\* the x of the empty-classified boxes on the row of question k
XVides(k) == {c.x : c \in Range(LignesVides(image)[k])}

\* some empty-classified box of the row of question k lies within the
\* tolerance of the expected position of template index i
VideProche(k, i) == \E x \in XVides(k) : Abs(x - XAttendu(k, i)) < TOLERANCE_X

\* C1: for every question of the page record and every template index of
\* that question, the answer is 'cochee' if and only if the row of empty
\* boxes of the question has no box within 200px of template_x + dx, and
\* 'vide' otherwise
C1_CocheeSsiAucuneVideProche ==
    PageAnalysee =>
        \A k \in DOMAIN page_data.questions :
            \A i \in 1..Len(template.page.contenu[k].cases) :
                /\ i \in DOMAIN page_data.questions[k].reponses
                /\ page_data.questions[k].reponses[i].reponse =
                       IF VideProche(k, i) THEN "vide" ELSE "cochee"

C1_Witness ==
    /\ PageAnalysee
    /\ \E k \in DOMAIN page_data.questions :
          \E i, j \in DOMAIN page_data.questions[k].reponses :
              /\ page_data.questions[k].reponses[i].reponse = "cochee"
              /\ page_data.questions[k].reponses[j].reponse = "vide"
              /\ ~VideProche(k, i)
              /\ VideProche(k, j)

EtatsReponses(k) ==
    [i \in DOMAIN page_data.questions[k].reponses |->
        page_data.questions[k].reponses[i].reponse]

\* the scan of the end-to-end example: the four-box question, and empty
\* boxes on its row exactly at 100+dx, 500+dx and 700+dx
ScenarioC2 ==
    /\ PageAnalysee
    /\ 1 \in DOMAIN page_data.questions
    /\ template.page.contenu[1].cases = CasesQ1
    /\ XVides(1) = {100 + page_data.decalage_x, 500 + page_data.decalage_x,
                    700 + page_data.decalage_x}

\* C2: whatever dx, with expected boxes at 100, 300, 500, 700 and empty
\* boxes detected only at 100+dx, 500+dx, 700+dx, the answers are empty,
\* checked, empty, empty: the boxes 200px away do not match index 1
C2_ExempleQuatreCases ==
    ScenarioC2 => EtatsReponses(1) = <<"vide", "cochee", "vide", "vide">>

C2_Witness ==
    /\ ScenarioC2
    /\ page_data.decalage_x = 30
    /\ EtatsReponses(1) = <<"vide", "cochee", "vide", "vide">>

\* C3: for every question of a page record the answer list has one entry
\* per template box, the k-th entry carries index k (from 0) and every
\* state is 'cochee' or 'vide'
C3_UneReponseParCase ==
    PageAnalysee =>
        \A k \in DOMAIN page_data.questions :
            LET reponses == page_data.questions[k].reponses
                N == Len(template.page.contenu[k].cases)
            IN  /\ DOMAIN reponses = 1..N
                /\ \A i \in 1..N :
                      /\ reponses[i].index = i - 1
                      /\ reponses[i].reponse \in {"cochee", "vide"}

C3_Witness ==
    /\ PageAnalysee
    /\ DOMAIN page_data.questions = {1, 2}
    /\ Len(page_data.questions[1].reponses) = 4
    /\ Len(page_data.questions[2].reponses) = 2
    /\ \E i \in 1..4 : page_data.questions[1].reponses[i].reponse = "cochee"

\* no box of any class was detected within the tolerance of the expected
\* position of template index i of question k, on any row
AucuneCaseDetectee(k, i) ==
    \A c \in Range(image.cases_brutes) :
        Abs(c.x - XAttendu(k, i)) >= TOLERANCE_X

\* C7 as stated: an expected box that no detection resolves is surfaced
\* as an ambiguity and never given one of the two default states
C7_Original ==
    PageAnalysee =>
        \A k \in DOMAIN page_data.questions :
            \A i \in DOMAIN page_data.questions[k].reponses :
                AucuneCaseDetectee(k, i) =>
                    \/ page_data.questions[k].reponses[i].reponse
                           \notin {"cochee", "vide"}
                    \/ DOMAIN page_data
                           # {"page", "decalage_x", "score_echelle", "questions"}

\* the mean y of the row of question k, as the record reports it
YMoyen(k) ==
    LET ligne == LignesVides(image)[k]
    IN  Somme([j \in 1..Len(ligne) |-> ligne[j].y]) \div Len(ligne)

\* C7 (amended): an expected box with no empty box within tolerance on its
\* row is never surfaced as an ambiguity: it is reported 'cochee' at the
\* template position shifted by dx, on the mean y of the row, with the
\* template width and height, and the page record has no field beyond
\* page, decalage_x, score_echelle and questions
C7_ManquanteCocheeSansAmbiguite ==
    PageAnalysee =>
        /\ DOMAIN page_data = {"page", "decalage_x", "score_echelle", "questions"}
        /\ \A k \in DOMAIN page_data.questions :
              \A i \in DOMAIN page_data.questions[k].reponses :
                  ~VideProche(k, i) =>
                      page_data.questions[k].reponses[i] =
                          [index |-> i - 1, reponse |-> "cochee",
                           x |-> XAttendu(k, i), y |-> YMoyen(k),
                           w |-> template.page.contenu[k].cases[i].w,
                           h |-> template.page.contenu[k].cases[i].h]

C7_Witness ==
    /\ PageAnalysee
    /\ page_data.decalage_x = 30
    /\ \E k \in DOMAIN page_data.questions :
          \E i \in DOMAIN page_data.questions[k].reponses :
              /\ AucuneCaseDetectee(k, i)
              /\ page_data.questions[k].reponses[i].reponse = "cochee"
              /\ page_data.questions[k].reponses[i].x = XAttendu(k, i)
              /\ YMoyen(k) \notin {1000, 1100}

----------------------------------------------------------------------------
(* Properties of a run of main over a batch (Spec)                         *)

\* the scale of a page is undetectable: no scale line, or no scale edges
EchelleIntrouvable(img) == ~img.ligne.trouvee \/ ~img.bords.trouves

\* the record of a page whose scale was not detected
EstEnregistrementErreur(rec, num) ==
    /\ DOMAIN rec = {"page", "erreur"}
    /\ rec.page = num

\* the loop of main has analysed at least one page
UnePageAnalysee == pc \in {"boucle", "fini", "exception"} /\ etapes # <<>>

\* C4: a page whose scale detection fails gets a record with the page
\* number and an error marker and no question data, nothing but the scale
\* detection is run on it and it never stops the run; the records are one
\* per page analysed, in page order, the pages after a failed one are
\* analysed, and the output written holds one record per input page
C4_EchecLocalALaPage ==
    /\ (UnePageAnalysee /\ EchelleIntrouvable(image)) =>
          /\ pc # "exception"
          /\ etapes = <<"detecter_echelle_seule">>
          /\ EstEnregistrementErreur(page_data, page_num - 1)
    /\ pc \in {"boucle", "fini"} =>
          /\ Len(resultats) = page_num - 1
          /\ \A i \in 1..Len(resultats) :
                /\ resultats[i].page = i
                /\ IF EchelleIntrouvable(pages[i])
                   THEN EstEnregistrementErreur(resultats[i], i)
                   ELSE "questions" \in DOMAIN resultats[i]
    /\ pc = "fini" =>
          /\ sortie.ecrit
          /\ sortie.pages = resultats
          /\ Len(sortie.pages) = Len(pages)

C4_Witness ==
    /\ pc = "fini"
    /\ Len(pages) = 2
    /\ EchelleIntrouvable(pages[1])
    /\ EstEnregistrementErreur(sortie.pages[1], 1)
    /\ ~EchelleIntrouvable(pages[2])
    /\ sortie.pages[2].page = 2
    /\ DOMAIN sortie.pages[2].questions # {}

\* C5 as stated: when the scale line or the shaded rectangle is
\* undetectable, the page record carries an error and no question is
\* processed
C5_Original ==
    (UnePageAnalysee /\ BienForme(template)
        /\ (EchelleIntrouvable(image) \/ ~image.rectangle)) =>
            /\ "erreur" \in DOMAIN page_data
            /\ "questions" \notin Range(etapes)

\* C5 (amended): when the scale line or the edges of the scale are
\* undetectable, the page record carries an error and no question is
\* processed; a page whose scale is detected gets no error, whether its
\* shaded rectangle is detectable or not
C5_ErreurSsiEchelleIntrouvable ==
    (UnePageAnalysee /\ BienForme(template)) =>
        IF EchelleIntrouvable(image)
        THEN /\ "erreur" \in DOMAIN page_data
             /\ "questions" \notin DOMAIN page_data
             /\ "questions" \notin Range(etapes)
        ELSE /\ "erreur" \notin DOMAIN page_data
             /\ "questions" \in DOMAIN page_data
             /\ "questions" \in Range(etapes)

C5_Witness ==
    /\ UnePageAnalysee
    /\ BienForme(template)
    /\ image.ligne.trouvee
    /\ ~image.bords.trouves
    /\ image.rectangle
    /\ "erreur" \in DOMAIN page_data
    /\ "questions" \notin Range(etapes)

\* the template read by main lacks a required field
TemplateIncomplet == pc \notin {"debut", "charger"} /\ ~BienForme(template)

\* C6 as stated: with a template lacking the page list, 'echelle',
\* 'contenu' or a question's 'cases', the run aborts whatever the batch:
\* no page record is produced and no output file is written
C6_Original ==
    TemplateIncomplet =>
        /\ pc # "fini"
        /\ ~sortie.ecrit
        /\ resultats = <<>>

\* the analysis of page img meets a missing key of template page tp: the
\* scale of the page is detected and either 'contenu' is missing or one of
\* the questions matched to a row of empty boxes has no 'cases'
CleManquanteAtteinte(img, tp) ==
    /\ ~EchelleIntrouvable(img)
    /\ \/ ~tp.a_contenu
       \/ \E k \in DOMAIN tp.contenu :
             /\ k <= Len(LignesVides(img))
             /\ k <= Cardinality(DOMAIN tp.contenu)
             /\ ~tp.contenu[k].a_cases

\* C6 (amended): a template without the page list aborts the run before
\* any page is analysed; a template without 'contenu', or without the
\* 'cases' of a question, aborts the run, with no output file, at the
\* first page whose scale is detected and, for 'cases', that has a row of
\* empty boxes matched to that question; the records of the pages before
\* it are built but never written, and a batch without such a page runs
\* to the end and writes one record per page; a missing 'echelle' is
\* never fatal and gives dx = 0 on every page
C6_AbandonSurCleManquante ==
    /\ (pc = "exception" /\ ~template.a_pages) =>
          /\ pages = <<>>
          /\ resultats = <<>>
          /\ etapes = <<>>
    /\ (pc = "exception" /\ template.a_pages) =>
          /\ page_num \in 1..Len(pages)
          /\ image = pages[page_num]
          /\ CleManquanteAtteinte(pages[page_num], template.page)
    /\ pc = "exception" => ~sortie.ecrit
    /\ pc \in {"boucle", "fini"} =>
          /\ template.a_pages
          /\ \A i \in 1..(page_num - 1) :
                ~CleManquanteAtteinte(pages[i], template.page)
    /\ pc = "fini" =>
          /\ sortie.ecrit
          /\ Len(sortie.pages) = Len(pages)
    /\ (pc \in {"boucle", "fini", "exception"} /\ template.a_pages
           /\ ~template.page.a_echelle /\ template.page.a_contenu
           /\ \A k \in DOMAIN template.page.contenu :
                  template.page.contenu[k].a_cases) =>
          /\ pc # "exception"
          /\ \A i \in 1..Len(resultats) :
                "decalage_x" \in DOMAIN resultats[i] =>
                    resultats[i].decalage_x = 0

C6_Witness ==
    /\ pc = "fini"
    /\ ~template.page.a_echelle
    /\ sortie.ecrit
    /\ \E i \in 1..Len(sortie.pages) :
          /\ "questions" \in DOMAIN sortie.pages[i]
          /\ DOMAIN sortie.pages[i].questions # {}
          /\ sortie.pages[i].decalage_x = 0
          /\ pages[i].bords.x_gauche # EchelleTemplate.gauche.x

----------------------------------------------------------------------------
(* Properties of analyser_case (SpecCase)                                  *)

CaseClassee == pc = "analyser_case"

\* pixels of the interior of the box classified: the box less a quarter of
\* its width and height on each side
PixelsInterieur ==
    (entree.w - 2 * (entree.w \div 4)) * (entree.h - 2 * (entree.h \div 4))

\* ink pixels of the interior of the box classified
PixelsEncre == Somme(entree.encre)

\* C8: the box is 'noire' if and only if its ink ratio is strictly above
\* 0.5; at exactly 0.5 it is not, at 0.51 it is
C8_NoireSsiRatioAuDessusDeMoitie ==
    CaseClassee =>
        /\ resultat.type = "noire" <=> 2 * PixelsEncre > PixelsInterieur
        /\ 2 * PixelsEncre = PixelsInterieur => resultat.type # "noire"
        /\ 100 * PixelsEncre = 51 * PixelsInterieur => resultat.type = "noire"

C8_Witness ==
    /\ CaseClassee
    /\ PixelsInterieur = 400
    /\ PixelsEncre = 200
    /\ resultat.type # "noire"

\* some connected component covers strictly more than 10% of the interior
UneGrosseComposante ==
    \E i \in 1..Len(entree.encre) : 10 * entree.encre[i] > PixelsInterieur

----------------------------------------------------------------------------
(* Properties of dedupliquer_cases (SpecDedup)                             *)

CasesDedupliquees == pc = "dedupliquer_cases"

\* four times the squared distance between the centres of two boxes
Distance2x2(c1, c2) ==
    ((2 * c1.x + c1.w) - (2 * c2.x + c2.w)) * ((2 * c1.x + c1.w) - (2 * c2.x + c2.w))
    + ((2 * c1.y + c1.h) - (2 * c2.y + c2.h)) * ((2 * c1.y + c1.h) - (2 * c2.y + c2.h))

\* the centres of two boxes are less than 10px apart
MoinsDeDixPixels(c1, c2) == Distance2x2(c1, c2) < 400

\* C10: the candidates returned have centres pairwise at least 10px
\* apart, every candidate discarded lies less than 10px from a returned
\* candidate of area at least its own, and two candidates with centres
\* 5px apart collapse to one, the larger
C10_DedupliquerGardeLesPlusGrandes ==
    CasesDedupliquees =>
        /\ \A i, j \in 1..Len(resultat) :
              i # j => ~MoinsDeDixPixels(resultat[i], resultat[j])
        /\ Range(resultat) \subseteq Range(entree)
        /\ \A c \in Range(entree) \ Range(resultat) :
              \E u \in Range(resultat) :
                  MoinsDeDixPixels(c, u) /\ u.aire >= c.aire
        /\ (Len(entree) = 2 /\ Distance2x2(entree[1], entree[2]) = 100) =>
              /\ Len(resultat) = 1
              /\ resultat[1].aire >= entree[1].aire
              /\ resultat[1].aire >= entree[2].aire

C10_Witness ==
    /\ CasesDedupliquees
    /\ Len(entree) = 2
    /\ Distance2x2(entree[1], entree[2]) = 100
    /\ entree[1].aire < entree[2].aire
    /\ resultat = <<entree[2]>>

----------------------------------------------------------------------------
(* regrouper_par_lignes on one list of boxes, for every list over Boites   *)

MaxBoites == 5       \* boxes given to regrouper_par_lignes alone

Boite(x, y) == [x |-> x, y |-> y, w |-> 40, h |-> 40, aire |-> 1600,
                encre |-> EncreVide]

\* boxes of a few rows: y 50 and 51 below the top of a row, rows that
\* chain from one to the next, two boxes side by side
Boites ==
    {Boite(30, 100), Boite(10, 105), Boite(20, 102), Boite(20, 400),
     Boite(10, 403), Boite(40, 150), Boite(40, 151), Boite(10, 155),
     Boite(10, 201), Boite(5, 452), Boite(10, 100), Boite(10, 250)}

\* position of a box in the list given: bottom-up, as the contours come
RangBoite(e) == e.y * 100000 + e.x

RECURSIVE EnListe(_)
EnListe(S) ==
    IF S = {} THEN <<>>
    ELSE LET c == CHOOSE e \in S : \A f \in S : RangBoite(f) <= RangBoite(e)
         IN  <<c>> \o EnListe(S \ {c})

AppelRegrouperParLignes ==
    /\ pc = "pur"
    /\ \E S \in SousEnsembles(Boites, MaxBoites) :
          /\ entree' = EnListe(S)
          /\ resultat' = regrouper_par_lignes(EnListe(S))
    /\ pc' = "regrouper_par_lignes"
    /\ UNCHANGED varsServeur
    /\ UNCHANGED <<template, pages, page_num, resultats, sortie, image,
                   etapes, page_data>>

NextLignes == AppelRegrouperParLignes

SpecLignes == InitPur /\ [][NextLignes]_vars

(* Properties of regrouper_par_lignes (SpecLignes)                         *)

LignesRegroupees == pc = "regrouper_par_lignes"

\* the smallest y of a row
YMin(ligne) == CHOOSE y \in {c.y : c \in Range(ligne)} :
                   \A c \in Range(ligne) : y <= c.y

\* C11: a new row starts exactly when a box's y exceeds the reference y of
\* the current row, the y of the box the row started with, by more than
\* 50px: every box of a row is at most 50px below the row's start, the
\* start of the next row is more than 50px below it, and boxes at
\* y = 100, 105, 102, 400, 403 form two rows of 3 and 2 boxes
C11_NouvelleLigneAuDelaDeCinquante ==
    LignesRegroupees =>
        /\ \A r \in 1..Len(resultat) :
              /\ resultat[r] # <<>>
              /\ \A c \in Range(resultat[r]) :
                    c.y - YMin(resultat[r]) <= TOLERANCE_Y
              /\ r < Len(resultat) =>
                    /\ YMin(resultat[r + 1]) - YMin(resultat[r]) > TOLERANCE_Y
                    /\ \A c \in Range(resultat[r]) :
                          c.y <= YMin(resultat[r + 1])
        /\ Somme([r \in 1..Len(resultat) |-> Len(resultat[r])]) = Len(entree)
        /\ [i \in 1..Len(entree) |-> entree[i].y] = <<403, 400, 105, 102, 100>> =>
              [r \in 1..Len(resultat) |-> Len(resultat[r])] = <<3, 2>>

C11_Witness ==
    /\ LignesRegroupees
    /\ [i \in 1..Len(entree) |-> entree[i].y] = <<403, 400, 105, 102, 100>>
    /\ [r \in 1..Len(resultat) |-> Len(resultat[r])] = <<3, 2>>

\* the boxes of all rows, row after row
RECURSIVE Aplatir(_)
Aplatir(lignes) ==
    IF lignes = <<>> THEN <<>> ELSE Head(lignes) \o Aplatir(Tail(lignes))

\* C12: the rows partition the input (every box in exactly one row, no
\* empty row), each row is x-ascending, the boxes of a row have y within
\* 50px of the row's smallest y, and the rows come in ascending order of
\* their smallest y
C12_LignesPartitionTriee ==
    LignesRegroupees =>
        /\ Len(Aplatir(resultat)) = Len(entree)
        /\ \A c \in Range(entree) :
              Cardinality({i \in 1..Len(entree) : entree[i] = c}) =
              Cardinality({i \in 1..Len(entree) : Aplatir(resultat)[i] = c})
        /\ \A r \in 1..Len(resultat) :
              /\ Len(resultat[r]) >= 1
              /\ \A i, j \in 1..Len(resultat[r]) :
                    i < j => resultat[r][i].x <= resultat[r][j].x
              /\ \A c \in Range(resultat[r]) :
                    Abs(c.y - YMin(resultat[r])) <= TOLERANCE_Y
        /\ \A r, s \in 1..Len(resultat) :
              r < s => YMin(resultat[r]) < YMin(resultat[s])

C12_Witness ==
    /\ LignesRegroupees
    /\ Len(resultat) = 3
    /\ Len(resultat[1]) = 3
    /\ resultat[1][1].y > resultat[1][2].y
    /\ resultat[1][3].y = YMin(resultat[1]) + TOLERANCE_Y

----------------------------------------------------------------------------
(* coter_echelle on one scale and one band of blobs                        *)

MaxBlobs == 3        \* connected components in the band under the scale

\* the scale at x_gauche, of the given width
Echelle(x_gauche, largeur_totale) ==
    [gauche |-> [x |-> x_gauche, y |-> 200],
     droite |-> [x |-> x_gauche + largeur_totale, y |-> 200]]

\* scales whose crop starts at 0 or at x_gauche - MARGE_CROP, of a width
\* that 5 divides or not
Echelles == {Echelle(x, l) : x \in {100, 400}, l \in {500, 504}}

\* x_gauche_crop of line 93
XGaucheCrop(echelle) == Min(echelle.gauche.x, MARGE_CROP)

\* a blob whose centroid is dixiemes tenths of a pixel right of the scale's
\* left end
Blob(echelle, w, area, dixiemes) ==
    [w |-> w, area |-> area,
     centroide10 |-> 10 * XGaucheCrop(echelle) + dixiemes]

\* pencil marks on graduations, next to the middle of two graduations and
\* beyond the right end; a blob too narrow and one too small
BlobsPossibles(echelle) ==
    {Blob(echelle, 60, 900, d) :
        d \in {0, 1008, 1506, 1510, 3000, 3024, 5600}}
    \cup {Blob(echelle, 46, 201, 4000), Blob(echelle, 45, 900, 4000),
          Blob(echelle, 60, 200, 2000)}

AppelCoterEchelle ==
    /\ pc = "pur"
    /\ \E echelle \in Echelles, a_echelle \in BOOLEAN :
       \E blobs \in SeqsJusqua(BlobsPossibles(echelle), MaxBlobs) :
          LET img == Img(TRUE, TRUE, 0, TRUE, blobs, <<>>)
              donnee == IF a_echelle THEN echelle ELSE EchelleNulle
          IN  /\ entree' = [a_echelle |-> a_echelle, echelle |-> donnee,
                            image |-> img]
              /\ resultat' = coter_echelle(img, a_echelle, donnee)
    /\ pc' = "coter_echelle"
    /\ UNCHANGED varsServeur
    /\ UNCHANGED <<template, pages, page_num, resultats, sortie, image,
                   etapes, page_data>>

NextEchelle == AppelCoterEchelle

SpecEchelle == InitPur /\ [][NextEchelle]_vars

(* Properties of coter_echelle (SpecEchelle)                               *)

EchelleCotee == pc = "coter_echelle"

\* the blobs given that are pencil marks: wide and large enough
Crayonnages ==
    {b \in Range(entree.image.blobs) :
        b.w > LARGEUR_MAX_CHIFFRE /\ b.area > AIRE_MIN_BLOB}

LargeurEchelle == entree.echelle.droite.x - entree.echelle.gauche.x

\* 50 times the distance from the centroid of b to the position
\* scale's left end + g * (scale width / 5), nothing rounded
DistanceExacte50(b, g) ==
    Abs(5 * (b.centroide10 - 10 * XGaucheCrop(entree.echelle))
        - 10 * g * LargeurEchelle)

PlusProcheExacte(b, g) ==
    \A s \in 0..5 : DistanceExacte50(b, g) <= DistanceExacte50(b, s)

CentreSur(b, g) == DistanceExacte50(b, g) = 0

\* the claim as made: the graduations returned are those nearest to the
\* centroids of the pencil blobs
C13_Original ==
    (EchelleCotee /\ entree.a_echelle) =>
        /\ \A g \in Range(resultat) :
              \E b \in Crayonnages : PlusProcheExacte(b, g)
        /\ \A b \in Crayonnages :
              \E g \in Range(resultat) : PlusProcheExacte(b, g)

\* the distance in whole pixels: the centroid and the position truncated
DistancePixels(b, g) ==
    Abs(b.centroide10 \div 10
        - (XGaucheCrop(entree.echelle) + (g * LargeurEchelle) \div 5))

\* g is the nearest graduation in whole pixels, the lower of two equally near
PlusProchePixels(b, g) ==
    /\ \A s \in 0..5 : DistancePixels(b, g) <= DistancePixels(b, s)
    /\ \A s \in 0..5 : s < g => DistancePixels(b, g) < DistancePixels(b, s)

\* C13 (amended): each pencil blob (width > 45, area > 200) is assigned to
\* the graduation nearest to its centroid x in whole pixels: the centroid x
\* and the 6 positions, the scale's left end + g * (scale width / 5), are
\* truncated to whole pixels and of two graduations equally near the lower
\* one is taken; a single pencil blob centred exactly on graduation g
\* yields [g]
C13_GraduationLaPlusProcheEnPixels ==
    (EchelleCotee /\ entree.a_echelle) =>
        /\ \A g \in Range(resultat) :
              \E b \in Crayonnages : PlusProchePixels(b, g)
        /\ \A b \in Crayonnages :
              \E g \in Range(resultat) : PlusProchePixels(b, g)
        /\ \A g \in 0..5 :
              (/\ Len(entree.image.blobs) = 1
               /\ Crayonnages # {}
               /\ \A b \in Crayonnages : CentreSur(b, g))
              => resultat = <<g>>

C13_Witness ==
    /\ EchelleCotee
    /\ entree.a_echelle
    /\ LargeurEchelle = 504
    /\ Len(entree.image.blobs) = 1
    /\ \A b \in Crayonnages : CentreSur(b, 3)
    /\ resultat = <<3>>

\* the input without the blobs that are not pencil marks
SansChiffres ==
    LET EstCrayonnage(b) == b \in Crayonnages
    IN  [entree.image EXCEPT !.blobs = SelectSeq(entree.image.blobs, EstCrayonnage)]

\* C14: a blob of width at most 45px never contributes a graduation,
\* whatever its position or area: every graduation returned is the one of a
\* blob of width > 45 and area > 200, and the result is the one obtained
\* with the other blobs taken away
C14_SeulsLesCrayonnagesComptent ==
    EchelleCotee =>
        /\ \A g \in Range(resultat) :
              \E b \in Crayonnages : PlusProchePixels(b, g)
        /\ Crayonnages = {} => resultat = <<>>
        /\ resultat = coter_echelle(SansChiffres, entree.a_echelle,
                                    entree.echelle)

C14_Witness ==
    /\ EchelleCotee
    /\ entree.a_echelle
    /\ \E b \in Range(entree.image.blobs) :
          b.w = LARGEUR_MAX_CHIFFRE /\ b.area > AIRE_MIN_BLOB
    /\ \E b \in Range(entree.image.blobs) :
          b.w > LARGEUR_MAX_CHIFFRE /\ b.area = AIRE_MIN_BLOB
    /\ resultat = <<0>>

\* C15: the value returned is a strictly increasing list of integers in
\* 0..5, whatever the number and the places of the pencil blobs, and it is
\* empty when no scale is given
C15_ScoresStrictementCroissants ==
    EchelleCotee =>
        /\ \A i \in 1..Len(resultat) : resultat[i] \in 0..5
        /\ \A i, j \in 1..Len(resultat) : i < j => resultat[i] < resultat[j]
        /\ ~entree.a_echelle => resultat = <<>>

\* marks met on graduations 3, 1 and 3 again
C15_Witness ==
    /\ EchelleCotee
    /\ entree.a_echelle
    /\ Len(entree.image.blobs) = 3
    /\ Cardinality(Crayonnages) = 3
    /\ PlusProchePixels(entree.image.blobs[1], 3)
    /\ PlusProchePixels(entree.image.blobs[2], 1)
    /\ PlusProchePixels(entree.image.blobs[3], 3)
    /\ resultat = <<1, 3>>


(* Properties of the offset (SpecPage)                                     *)

\* C16: calculer_dx returns the scan's scale-left x minus the template's
\* when both scales are given and 0 when either is absent; decalage_x of
\* the page record is that value, and the x of every 'cochee' answer of
\* every question is its template x + decalage_x
C16_DecalageUniqueParPage ==
    /\ pc = "calculer_dx" =>
          resultat = IF template.page.a_echelle /\ entree.a_reponse
                     THEN entree.echelle_reponse.gauche.x
                          - template.page.echelle.gauche.x
                     ELSE 0
    /\ PageAnalysee =>
          /\ page_data.decalage_x =
                 IF template.page.a_echelle
                 THEN image.bords.x_gauche - template.page.echelle.gauche.x
                 ELSE 0
          /\ \A k \in DOMAIN page_data.questions :
                \A i \in DOMAIN page_data.questions[k].reponses :
                    page_data.questions[k].reponses[i].reponse = "cochee" =>
                        page_data.questions[k].reponses[i].x =
                            template.page.contenu[k].cases[i].x
                            + page_data.decalage_x

\* a page shifted by 30px whose two questions each have a box ticked
C16_Witness ==
    /\ PageAnalysee
    /\ page_data.decalage_x = 30
    /\ DOMAIN page_data.questions = {1, 2}
    /\ \A k \in {1, 2} :
          \E i \in DOMAIN page_data.questions[k].reponses :
              /\ page_data.questions[k].reponses[i].reponse = "cochee"
              /\ page_data.questions[k].reponses[i].x =
                     template.page.contenu[k].cases[i].x + 30


(* Properties of the batch: what a page record depends on (Spec)           *)

\* a page record without its page number
SansPage(r) == [k \in DOMAIN r \ {"page"} |-> r[k]]

\* the claim as made: identical images give identical records
C17_Original ==
    \A i, j \in 1..Len(resultats) :
        pages[i] = pages[j] => resultats[i] = resultats[j]

RecordsSelonImageEtNumero ==
    /\ \A i, j \in 1..Len(resultats) :
          pages[i] = pages[j] => SansPage(resultats[i]) = SansPage(resultats[j])
    /\ \A i \in 1..Len(resultats) :
          /\ resultats[i].page = i
          /\ SansPage(resultats[i]) =
                 SansPage(analyser_page(pages[i], 1, template.page).retour)

\* C17 (amended): the page record is a function of the page image, the page
\* number and the template: two analyses with identical image and template
\* yield records identical but for the field 'page', which is the position
\* of the page in the batch, whatever pages were analysed before; and
\* analysing a page leaves the template unchanged
C17_RecordSelonImageNumeroTemplate ==
    /\ []RecordsSelonImageEtNumero
    /\ [][pc = "boucle" => template' = template]_vars

\* twice the same readable page in one batch
C17_Witness ==
    /\ Len(resultats) = 2
    /\ pages[1] = pages[2]
    /\ "questions" \in DOMAIN resultats[1]
    /\ page_data.decalage_x = 30
    /\ resultats[1] # resultats[2]
    /\ SansPage(resultats[1]) = SansPage(resultats[2])

----------------------------------------------------------------------------
(* reperage.py: trouver_ligne_echelle                                      *)
(* A binarised image is [h, w, blancs]: its height, its width and the set  *)
(* of its foreground pixels <<x, y>> (255 after THRESH_BINARY_INV).        *)

HauteurImage == 12   \* rows of the images given to trouver_ligne_echelle
LargeurImage == 4    \* columns of these images
MaxBlancs == 2       \* foreground pixels of these images

DEMI_BANDE == 5

\* proj of lines 217-220 for row y: column x has a foreground pixel in
\* binary[max(0, y-5):min(h, y+5), :]
Proj(binary, y) ==
    [x \in 0..(binary.w - 1) |->
        \E r \in 0..(binary.h - 1) :
            /\ r >= y - DEMI_BANDE
            /\ r < y + DEMI_BANDE
            /\ <<x, r>> \in binary.blancs]

RECURSIVE SegmentMax(_, _, _, _, _, _)
\* the loop of lines 227-244 from column x on; debut = -1 stands for None;
\* returns [max_seg, x1_max]
SegmentMax(proj, w, x, debut, max_seg, x1_max) ==
    IF x = w
    THEN IF debut # -1 /\ w - debut > max_seg
         THEN [max_seg |-> w - debut, x1_max |-> debut]
         ELSE [max_seg |-> max_seg, x1_max |-> x1_max]
    ELSE IF proj[x]
    THEN SegmentMax(proj, w, x + 1, IF debut = -1 THEN x ELSE debut,
                    max_seg, x1_max)
    ELSE IF debut # -1 /\ x - debut > max_seg
    THEN SegmentMax(proj, w, x + 1, -1, x - debut, debut)
    ELSE SegmentMax(proj, w, x + 1, -1, max_seg, x1_max)

LigneNulle == [trouvee |-> FALSE, x1 |-> 0, y |-> 0, x2 |-> 0]

RECURSIVE BalayerLignes(_, _, _, _)
\* the loop of lines 214-251 from row y on
BalayerLignes(binary, y, best, max_len) ==
    IF y = binary.h THEN best
    ELSE LET seg == SegmentMax(Proj(binary, y), binary.w, 0, -1, 0, 0)
         IN  IF seg.max_seg > max_len
             THEN BalayerLignes(binary, y + 1,
                                [trouvee |-> TRUE, x1 |-> seg.x1_max, y |-> y,
                                 x2 |-> seg.x1_max + seg.max_seg],
                                seg.max_seg)
             ELSE BalayerLignes(binary, y + 1, best, max_len)

\* returns [trouvee, x1, y, x2]; trouvee = FALSE is None
trouver_ligne_echelle(binary) == BalayerLignes(binary, 0, LigneNulle, 0)

Pixels == (0..(LargeurImage - 1)) \X (0..(HauteurImage - 1))

AppelTrouverLigneEchelle ==
    /\ pc = "pur"
    /\ \E blancs \in SousEnsembles(Pixels, MaxBlancs) :
          LET binary == [h |-> HauteurImage, w |-> LargeurImage,
                         blancs |-> blancs]
          IN  /\ entree' = binary
              /\ resultat' = trouver_ligne_echelle(binary)
    /\ pc' = "trouver_ligne_echelle"
    /\ UNCHANGED varsServeur
    /\ UNCHANGED <<template, pages, page_num, resultats, sortie, image,
                   etapes, page_data>>

NextLigne == AppelTrouverLigneEchelle

SpecLigne == InitPur /\ [][NextLigne]_vars

(* Properties of trouver_ligne_echelle (SpecLigne)                         *)

LigneCherchee == pc = "trouver_ligne_echelle"

\* column x is content at row y: a foreground pixel within 5 rows of y
ContenuA5Pres(x, y) ==
    \E r \in 0..(entree.h - 1) :
        Abs(r - y) <= DEMI_BANDE /\ <<x, r>> \in entree.blancs

\* the columns x1 .. x2 - 1 of row y are a run of content columns that
\* cannot be extended
EstSegment(x1, x2, y) ==
    /\ x1 < x2
    /\ \A x \in x1..(x2 - 1) : ContenuA5Pres(x, y)
    /\ x1 = 0 \/ ~ContenuA5Pres(x1 - 1, y)
    /\ x2 = entree.w \/ ~ContenuA5Pres(x2, y)

Segments ==
    {s \in (0..entree.w) \X (0..entree.w) \X (0..(entree.h - 1)) :
        EstSegment(s[1], s[2], s[3])}

\* C19: trouver_ligne_echelle returns the longest run of content columns
\* over all rows, a column being content at row y when it has a foreground
\* pixel within 5 rows of y; of the runs of that length the one of the
\* lowest row, then the leftmost; and None exactly when no row has a run
C19_PlusLongSegmentA5Pres ==
    LigneCherchee =>
        /\ resultat.trouvee <=> Segments # {}
        /\ resultat.trouvee =>
              /\ <<resultat.x1, resultat.x2, resultat.y>> \in Segments
              /\ \A s \in Segments :
                    LET longueur == s[2] - s[1]
                        retenue == resultat.x2 - resultat.x1
                    IN  \/ longueur < retenue
                        \/ /\ longueur = retenue
                           /\ \/ resultat.y < s[3]
                              \/ resultat.y = s[3] /\ resultat.x1 <= s[1]

----------------------------------------------------------------------------
(* reperage.py: trouver_bords_ligne_echelle                                *)
(* The band around the scale line, binarised, is given by its projection:  *)
(* for each column, the number of its foreground pixels (np.sum(binary,    *)
(* axis=0) is 255 times that number, and the factor goes with the          *)
(* normalisation by the maximum).                                          *)

LargeurBande == 30   \* columns of the bands given to trouver_bords_ligne_echelle
MaxDecalage == 3     \* largest translation of a band, either way

LARGEUR_MIN == 20

\* seuil = 0.15 is SEUIL_NUM / SEUIL_DEN
SEUIL_NUM == 3
SEUIL_DEN == 20

MaxProjection(projection) ==
    CHOOSE m \in Range(projection) : \A v \in Range(projection) : v <= m

\* np.mean(projection[x:x+largeur_min]) > seuil after the normalisation of
\* lines 285-286: sum / (max * largeur_min) > 3/20, the projection left as
\* it is when its maximum is 0
FenetreDense(projection, x) ==
    LET somme == Somme([i \in 1..LARGEUR_MIN |-> projection[x + i - 1]])
        maxi == MaxProjection(projection)
    IN  IF maxi > 0
        THEN somme * SEUIL_DEN > SEUIL_NUM * maxi * LARGEUR_MIN
        ELSE FALSE

BordsNuls == [trouves |-> FALSE, x_gauche |-> 0, x_droite |-> 0]

\* returns [trouves, x_gauche, x_droite]; trouves = FALSE is None
trouver_bords_ligne_echelle(projection) ==
    LET n == Len(projection)
        \* range(len(projection) - largeur_min), first hit
        gauches == {x \in 0..(n - LARGEUR_MIN - 1) :
                       FenetreDense(projection, x + 1)}
        \* range(len(projection)-1, largeur_min, -1), first hit
        droites == {x \in (LARGEUR_MIN + 1)..(n - 1) :
                       FenetreDense(projection, x - LARGEUR_MIN + 1)}
        x_gauche == CHOOSE x \in gauches : \A z \in gauches : x <= z
        x_droite == CHOOSE x \in droites : \A z \in droites : z <= x
    IN  \* x_gauche and x_droite: None and 0 are both false
        IF gauches # {} /\ droites # {} /\ x_gauche # 0 /\ x_droite # 0
        THEN [trouves |-> TRUE, x_gauche |-> x_gauche, x_droite |-> x_droite]
        ELSE BordsNuls

\* the projection of a band that holds a line on the columns a .. b - 1,
\* one foreground pixel each, and a column n of two (none when n = -1)
Bande(a, b, n) ==
    [i \in 1..LargeurBande |->
        IF i - 1 = n THEN 2
        ELSE IF a <= i - 1 /\ i - 1 < b THEN 1 ELSE 0]

AppelTrouverBords ==
    /\ pc = "pur"
    /\ \E a \in 0..LargeurBande, n \in -1..(LargeurBande - 1) :
       \E b \in a..LargeurBande :
          /\ entree' = Bande(a, b, n)
          /\ resultat' = trouver_bords_ligne_echelle(Bande(a, b, n))
    /\ pc' = "trouver_bords_ligne_echelle"
    /\ UNCHANGED varsServeur
    /\ UNCHANGED <<template, pages, page_num, resultats, sortie, image,
                   etapes, page_data>>

\* the image of which the band of the scale line has this projection
ImageDeBande(projection) ==
    [ligne |-> [trouvee |-> TRUE, y |-> 200],
     bords |-> trouver_bords_ligne_echelle(projection)]

\* the scale of a template image and the one of the same image moved by k
\* columns, the line inside the page both times, and the dx between them
AppelTranslation ==
    /\ pc = "pur"
    /\ \E a \in 0..LargeurBande, k \in (-MaxDecalage)..MaxDecalage :
       \E b \in (a + 1)..LargeurBande :
          /\ a + k >= 0
          /\ b + k <= LargeurBande
          /\ LET modele == detecter_echelle_seule(ImageDeBande(Bande(a, b, -1)))
                 reponse == detecter_echelle_seule(
                                ImageDeBande(Bande(a + k, b + k, -1)))
             IN  /\ entree' = [a |-> a, b |-> b, k |-> k]
                 /\ resultat' =
                        [modele |-> modele, reponse |-> reponse,
                         dx |-> calculer_dx(modele.ok, modele.echelle,
                                            reponse.ok, reponse.echelle)]
    /\ pc' = "translation"
    /\ UNCHANGED varsServeur
    /\ UNCHANGED <<template, pages, page_num, resultats, sortie, image,
                   etapes, page_data>>

NextBords == AppelTrouverBords

SpecBords == InitPur /\ [][NextBords]_vars

NextTranslation == AppelTranslation

SpecTranslation == InitPur /\ [][NextTranslation]_vars

(* Properties of trouver_bords_ligne_echelle (SpecBords)                   *)

BordsCherches == pc = "trouver_bords_ligne_echelle"

\* the starts of the 20-column windows of mean density above 0.15
DebutsDenses ==
    {x \in 0..(Len(entree) - LARGEUR_MIN) : FenetreDense(entree, x + 1)}

\* C20: the left edge is the start of the first 20px window from the left
\* whose mean normalised density exceeds 0.15, the right edge the end of
\* the first such window from the right, and the search fails only when no
\* such window exists on one of the two sides
C20_BordsPremieresFenetresDenses ==
    BordsCherches =>
        /\ ~resultat.trouves => DebutsDenses = {}
        /\ resultat.trouves =>
              /\ resultat.x_gauche \in DebutsDenses
              /\ \A x \in DebutsDenses : resultat.x_gauche <= x
              /\ resultat.x_droite - LARGEUR_MIN \in DebutsDenses
              /\ \A x \in DebutsDenses : x + LARGEUR_MIN <= resultat.x_droite

(* Properties of the offset of a translated image (SpecTranslation)        *)

\* C18: when the scan is the template image moved by k columns, the scale
\* line inside the page both times, the scale of the scan is detected, its
\* left edge is the template's moved by k and dx is k, to within the 20
\* columns of the detection window
C18_TranslationDonneDx ==
    (pc = "translation" /\ resultat.modele.ok) =>
        /\ resultat.reponse.ok
        /\ Abs(resultat.reponse.echelle.gauche.x
               - resultat.modele.echelle.gauche.x - entree.k) <= LARGEUR_MIN
        /\ Abs(resultat.dx - entree.k) <= LARGEUR_MIN

----------------------------------------------------------------------------
(* reperage.py: trouver_rectangle_gris                                     *)
(* The searched zone is given by its rows read top to bottom as runs:      *)
(* a sequence of [sombre, longueur], sombre telling whether the rows of    *)
(* the run have intensite < seuil, two neighbouring runs never of the      *)
(* same kind.  The loop over the rows changes its variables only where a   *)
(* run ends.                                                               *)

MaxSuites == 4       \* runs of rows in the searched zone

HAUTEUR_MIN_RECTANGLE == 200

RECURSIVE SommeLongueurs(_)
SommeLongueurs(suites) ==
    IF suites = <<>> THEN 0
    ELSE Head(suites).longueur + SommeLongueurs(Tail(suites))

RectangleNul ==
    [trouve |-> FALSE, x |-> 0, y_haut |-> 0, largeur |-> 0, hauteur |-> 0]

RECURSIVE ChercherZoneSombre(_, _, _, _, _, _)
\* lines 363-384: y is the row the next run starts at; a_meilleur = FALSE
\* stands for meilleur_debut is None
ChercherZoneSombre(suites, y, longueur_max, a_meilleur, meilleur_debut, meilleur_fin) ==
    IF suites = <<>>
    THEN [longueur_max |-> longueur_max, a_meilleur |-> a_meilleur,
          meilleur_debut |-> meilleur_debut, meilleur_fin |-> meilleur_fin]
    ELSE LET suite == Head(suites)
             fin == y + suite.longueur
         IN  IF ~suite.sombre
             THEN ChercherZoneSombre(Tail(suites), fin, longueur_max,
                                     a_meilleur, meilleur_debut, meilleur_fin)
             ELSE IF Tail(suites) # <<>>
             \* a light row follows: lines 372-378
             THEN IF suite.longueur > longueur_max
                  THEN ChercherZoneSombre(Tail(suites), fin, suite.longueur,
                                          TRUE, y, fin)
                  ELSE ChercherZoneSombre(Tail(suites), fin, longueur_max,
                                          a_meilleur, meilleur_debut,
                                          meilleur_fin)
             \* the run reaches the bottom of the page: lines 381-384,
             \* which leave longueur_max as it is
             ELSE IF suite.longueur > longueur_max
                  THEN [longueur_max |-> longueur_max, a_meilleur |-> TRUE,
                        meilleur_debut |-> y, meilleur_fin |-> fin]
                  ELSE [longueur_max |-> longueur_max,
                        a_meilleur |-> a_meilleur,
                        meilleur_debut |-> meilleur_debut,
                        meilleur_fin |-> meilleur_fin]

\* zone: [moitie_basse_y, w, suites]; returns [trouve, x, y_haut, largeur, hauteur],
\* trouve = FALSE being None
trouver_rectangle_gris(zone) ==
    LET fin == ChercherZoneSombre(zone.suites, 0, 0, FALSE, 0, 0)
    IN  IF ~fin.a_meilleur \/ fin.longueur_max < HAUTEUR_MIN_RECTANGLE
        THEN RectangleNul
        ELSE [trouve |-> TRUE, x |-> 0,
              y_haut |-> fin.meilleur_debut + zone.moitie_basse_y,
              largeur |-> zone.w,
              hauteur |-> fin.meilleur_fin - fin.meilleur_debut]

\* run lengths around the least height of a rectangle
LongueursSuites == {1, 199, 200, 201, 250}

\* the zones of at most MaxSuites runs, the first one dark or not
Zones ==
    {[moitie_basse_y |-> SommeLongueurs(
                            [i \in 1..Len(l) |-> [longueur |-> l[i]]]),
      w |-> 600,
      suites |-> [i \in 1..Len(l) |->
                     [sombre |-> (i % 2 = 1) = premiere, longueur |-> l[i]]]] :
        l \in SeqsJusqua(LongueursSuites, MaxSuites) \ {<<>>},
        premiere \in BOOLEAN}

AppelTrouverRectangleGris ==
    /\ pc = "pur"
    /\ \E zone \in Zones :
          /\ entree' = zone
          /\ resultat' = trouver_rectangle_gris(zone)
    /\ pc' = "trouver_rectangle_gris"
    /\ UNCHANGED varsServeur
    /\ UNCHANGED <<template, pages, page_num, resultats, sortie, image,
                   etapes, page_data>>

NextRectangle == AppelTrouverRectangleGris

SpecRectangle == InitPur /\ [][NextRectangle]_vars

(* Properties of trouver_rectangle_gris (SpecRectangle)                    *)

RectangleCherche == pc = "trouver_rectangle_gris"

\* the row of the zone at which run i starts
DebutSuite(i) == SommeLongueurs(SubSeq(entree.suites, 1, i - 1))

SuitesSombres == {i \in 1..Len(entree.suites) : entree.suites[i].sombre}

\* the first of the longest dark runs
PlusLongueSuite ==
    CHOOSE i \in SuitesSombres :
        \A j \in SuitesSombres :
            \/ entree.suites[j].longueur < entree.suites[i].longueur
            \/ entree.suites[j].longueur = entree.suites[i].longueur /\ i <= j

\* C21: trouver_rectangle_gris returns the vertical span of the longest run
\* of rows below the threshold, and returns None exactly when that run is
\* shorter than 200 rows, also when the longest run reaches the bottom of
\* the page
C21_RectanglePlusLongueSuiteSombre ==
    RectangleCherche =>
        /\ resultat.trouve <=>
              /\ SuitesSombres # {}
              /\ entree.suites[PlusLongueSuite].longueur >= HAUTEUR_MIN_RECTANGLE
        /\ resultat.trouve =>
              /\ resultat.y_haut =
                     DebutSuite(PlusLongueSuite) + entree.moitie_basse_y
              /\ resultat.hauteur = entree.suites[PlusLongueSuite].longueur

----------------------------------------------------------------------------
(* fusionner_resultats.py                                                  *)
(* 'globale' is a float, the quotient of two integers of which the second  *)
(* is at most 6: it is kept exactly as 60 times its value (globale60),     *)
(* a_globale = FALSE being None.  A title the template does not give is    *)
(* the default of the code: '' for a question, <<"Option", idx + 1>> for   *)
(* a box.                                                                  *)

\* faulty variant: the quotient is an integer division
ScoreGlobale_entiere(score_echelle) ==
    IF score_echelle # <<>>
    THEN [a_globale |-> TRUE,
          globale60 |-> 60 * (Somme(score_echelle) \div Len(score_echelle))]
    ELSE [a_globale |-> FALSE, globale60 |-> 0]

\* lines 39-43
ScoreGlobale(score_echelle) ==
    IF score_echelle # <<>>
    THEN [a_globale |-> TRUE,
          globale60 |-> (60 * Somme(score_echelle)) \div Len(score_echelle)]
    ELSE [a_globale |-> FALSE, globale60 |-> 0]

\* lines 58-80 for one question of a page record
QuestionFusionnee(template_question, q_result) ==
    [titre |-> "",
     reponses |->
        [i \in 1..Len(q_result.reponses) |->
            [titre |-> <<"Option", q_result.reponses[i].index + 1>>,
             cochee |-> IF q_result.reponses[i].reponse = "cochee"
                        THEN 1 ELSE 0]]]

\* lines 33-82 for one page record
PageFusionnee(template_page, page_result) ==
    LET score_echelle == IF "score_echelle" \in DOMAIN page_result
                         THEN page_result.score_echelle ELSE <<>>
        questions == IF "questions" \in DOMAIN page_result
                     THEN page_result.questions ELSE <<>>
        score == ScoreGlobale(score_echelle)
    IN  [page |-> page_result.page,
         a_globale |-> score.a_globale,
         globale60 |-> score.globale60,
         questions |->
            [k \in {q \in DOMAIN questions : q \in DOMAIN template_page.contenu} |->
                QuestionFusionnee(template_page.contenu[k], questions[k])]]

\* the template and the results as json.load gives them
fusionner_resultats(template_page, resultats_json) ==
    [pages |-> [i \in 1..Len(resultats_json.pages) |->
                   PageFusionnee(template_page, resultats_json.pages[i])]]

EchelleFusion == Echelle(430, 500)

\* pages: the scale not found, or the scale marked on no, one or several
\* graduations, boxes detected or not
ImagesFusion ==
    {Img(FALSE, TRUE, 0, TRUE, <<>>, RangeeVide(0))}
    \cup {Img(TRUE, TRUE, 30, TRUE, blobs, cases) :
            blobs \in {<<>>,
                       <<Blob(EchelleFusion, 60, 900, 0)>>,
                       <<Blob(EchelleFusion, 60, 900, 0),
                         Blob(EchelleFusion, 60, 900, 1008)>>,
                       <<Blob(EchelleFusion, 60, 900, 3000),
                         Blob(EchelleFusion, 60, 900, 1008)>>,
                       <<Blob(EchelleFusion, 60, 900, 1008),
                         Blob(EchelleFusion, 60, 900, 2000),
                         Blob(EchelleFusion, 60, 900, 4000)>>},
            cases \in {<<>>, RangeeVide(30)}}

\* the page records detect0.py writes for a batch
ResultatsDuLot(template_page, lot) ==
    [pages |-> [i \in 1..Len(lot) |->
                   analyser_page(lot[i], i, template_page).retour]]

AppelFusionnerResultats ==
    /\ pc = "pur"
    /\ \E template_page \in {PageT(TRUE, TRUE, Contenu12),
                             PageT(TRUE, TRUE, Contenu2Seul)} :
       \E lot \in SeqsJusqua(ImagesFusion, MaxPages) :
          LET resultats_lot == ResultatsDuLot(template_page, lot)
          IN  /\ entree' = [template_page |-> template_page,
                            resultats |-> resultats_lot]
              /\ resultat' = fusionner_resultats(template_page, resultats_lot)
    /\ pc' = "fusionner_resultats"
    /\ UNCHANGED varsServeur
    /\ UNCHANGED <<template, pages, page_num, resultats, sortie, image,
                   etapes, page_data>>

NextFusion == AppelFusionnerResultats

SpecFusion == InitPur /\ [][NextFusion]_vars

(* Properties of fusionner_resultats (SpecFusion)                          *)

Fusionne == pc = "fusionner_resultats"

\* C22: one output page per input page record, in the same order; its
\* 'globale' is the arithmetic mean of the page's scale scores, and None
\* when the page has no scale scores, error pages included, which get an
\* empty question map
C22_GlobaleMoyenneDesScores ==
    Fusionne =>
        /\ Len(resultat.pages) = Len(entree.resultats.pages)
        /\ \A i \in 1..Len(resultat.pages) :
              LET donnee == entree.resultats.pages[i]
                  sortie_page == resultat.pages[i]
                  scores == IF "score_echelle" \in DOMAIN donnee
                            THEN donnee.score_echelle ELSE <<>>
              IN  /\ sortie_page.page = donnee.page
                  /\ sortie_page.a_globale <=> Len(scores) > 0
                  /\ sortie_page.a_globale =>
                        sortie_page.globale60 * Len(scores) = 60 * Somme(scores)
                  /\ "erreur" \in DOMAIN donnee =>
                        /\ ~sortie_page.a_globale
                        /\ DOMAIN sortie_page.questions = {}

\* an error page followed by a page marked on graduations 0 and 1
C22_Witness ==
    /\ Fusionne
    /\ Len(resultat.pages) = 2
    /\ "erreur" \in DOMAIN entree.resultats.pages[1]
    /\ ~resultat.pages[1].a_globale
    /\ "score_echelle" \in DOMAIN entree.resultats.pages[2]
    /\ entree.resultats.pages[2].score_echelle = <<0, 1>>
    /\ resultat.pages[2].globale60 = 30
    /\ DOMAIN resultat.pages[2].questions # {}


(* Properties of the 'vide' answers (SpecPage)                             *)

\* the answer r carries the geometry of the detected box c
GeometrieDe(r, c) == r.x = c.x /\ r.y = c.y /\ r.w = c.w /\ r.h = c.h

\* C23: the branch that reports 'vide' with the template geometry is never
\* taken: every 'vide' answer of every question carries the geometry of a
\* box of the question's row of empty boxes that lies less than 200px from
\* template_x + dx
C23_VideEstUneCaseDetectee ==
    PageAnalysee =>
        \A k \in DOMAIN page_data.questions :
            \A i \in DOMAIN page_data.questions[k].reponses :
                LET r == page_data.questions[k].reponses[i]
                IN  r.reponse = "vide" =>
                        \E c \in Range(LignesVides(image)[k]) :
                            /\ Abs(c.x - XAttendu(k, i)) < TOLERANCE_X
                            /\ GeometrieDe(r, c)

\* a 'vide' answer whose box is not where the template expects it
C23_Witness ==
    /\ PageAnalysee
    /\ \E k \in DOMAIN page_data.questions :
          \E i \in DOMAIN page_data.questions[k].reponses :
              LET r == page_data.questions[k].reponses[i]
              IN  /\ r.reponse = "vide"
                  /\ r.x # XAttendu(k, i)
                  /\ \E c \in Range(LignesVides(image)[k]) : GeometrieDe(r, c)


\* the template indices (1-based here) of question k reported 'vide'
IndicesVides(k) ==
    {i \in DOMAIN page_data.questions[k].reponses :
        page_data.questions[k].reponses[i].reponse = "vide"}

\* the claim as made: no more 'vide' indices than empty boxes on the row
C24_Original ==
    PageAnalysee =>
        \A k \in DOMAIN page_data.questions :
            Cardinality(IndicesVides(k)) <= Len(LignesVides(image)[k])

\* the pairs of a template index of question k and an empty box of its row
\* less than 200px from the expected x of the index
PairesProches(k) ==
    {p \in (DOMAIN page_data.questions[k].reponses)
           \X (1..Len(LignesVides(image)[k])) :
        Abs(LignesVides(image)[k][p[2]].x - XAttendu(k, p[1])) < TOLERANCE_X}

\* C24 (amended): for every question of a page record, every template index
\* reported 'vide' has an empty box of the matched row less than 200px from
\* its expected x, and the number of indices reported 'vide' never exceeds
\* the number of such (index, box) pairs; one detected empty box accounts
\* for every template index it is near, possibly several
C24_VidesBornesParLesPairesProches ==
    PageAnalysee =>
        \A k \in DOMAIN page_data.questions :
            /\ \A i \in IndicesVides(k) : \E p \in PairesProches(k) : p[1] = i
            /\ Cardinality(IndicesVides(k)) <= Cardinality(PairesProches(k))

\* one empty box on the row, two template indices reported 'vide'
C24_Witness ==
    /\ PageAnalysee
    /\ \E k \in DOMAIN page_data.questions :
          /\ Len(LignesVides(image)[k]) = 1
          /\ Cardinality(IndicesVides(k)) = 2
          /\ Cardinality(PairesProches(k)) = 2


(* Properties of the pairing of questions and rows (SpecPage)              *)

\* C25: with m the smaller of the number of rows of empty boxes and the
\* number of template questions, the page record has an entry exactly for
\* the question_k, 1 <= k <= m, that the template has; question_k is
\* evaluated against the k-th row from the top, which is never empty: its
\* 'vide' answers are boxes of that row, its 'cochee' answers lie at the
\* mean y of that row, and an index is 'vide' exactly when that row has a
\* box near; the template questions beyond m have no entry
C25_QuestionKContreLigneK ==
    PageAnalysee =>
        LET lignes == LignesVides(image)
            contenu == template.page.contenu
            m == Min(Len(lignes), Cardinality(DOMAIN contenu))
        IN  /\ DOMAIN page_data.questions = {k \in 1..m : k \in DOMAIN contenu}
            /\ \A k \in 1..(Len(lignes) - 1) :
                  \A c \in Range(lignes[k]), d \in Range(lignes[k + 1]) :
                      c.y < d.y
            /\ \A k \in DOMAIN page_data.questions :
                  /\ lignes[k] # <<>>
                  /\ \A i \in DOMAIN page_data.questions[k].reponses :
                        LET r == page_data.questions[k].reponses[i]
                            proches == {c \in Range(lignes[k]) :
                                           Abs(c.x - XAttendu(k, i)) < TOLERANCE_X}
                        IN  IF proches = {}
                            THEN /\ r.reponse = "cochee"
                                 /\ r.y = Somme([j \in 1..Len(lignes[k]) |->
                                                    lignes[k][j].y])
                                              \div Len(lignes[k])
                            ELSE /\ r.reponse = "vide"
                                 /\ \E c \in proches : GeometrieDe(r, c)

\* one row of empty boxes, two template questions: only question_1 is there
C25_Witness ==
    /\ PageAnalysee
    /\ Len(LignesVides(image)) = 1
    /\ DOMAIN template.page.contenu = {1, 2}
    /\ DOMAIN page_data.questions = {1}


(* Properties of what the answers depend on (SpecPage)                     *)

\* the detected boxes classified 'vide', in the order of detection
CasesVidesDetectees(img) ==
    LET Vide(c) == analyser_case(c).type = "vide"
    IN  SelectSeq(detecter_cases_completes(img), Vide)

\* the page with the same scale landmarks whose only boxes are the boxes of
\* the page classified 'vide', and nothing in the band under the scale
PageDesVides ==
    [image EXCEPT !.cases_brutes = CasesVidesDetectees(image), !.blobs = <<>>]

\* C26: the question answers depend on the detected boxes only through the
\* boxes classified 'vide': the page that has the same scale landmarks and
\* the same empty-classified boxes but no filled box at all yields the same
\* question answers, so any two pages with the same landmarks and the same
\* empty-classified boxes do, whatever their 'noire' and 'traits' boxes
C26_ReponsesSelonLesVidesSeulement ==
    PageAnalysee =>
        /\ CasesVidesDetectees(PageDesVides) = CasesVidesDetectees(image)
        /\ analyser_page(PageDesVides, page_num, template.page).retour.questions
               = page_data.questions

\* a page with a ticked and a blackened box next to its empty boxes
C26_Witness ==
    /\ PageAnalysee
    /\ \E c \in Range(detecter_cases_completes(image)) :
          analyser_case(c).type = "traits"
    /\ \E c \in Range(detecter_cases_completes(image)) :
          analyser_case(c).type = "noire"
    /\ CasesVidesDetectees(image) # <<>>
    /\ \E k \in DOMAIN page_data.questions :
          \E i \in DOMAIN page_data.questions[k].reponses :
              page_data.questions[k].reponses[i].reponse = "cochee"


(* Properties of dedupliquer_cases applied twice (SpecDedup)               *)

\* C27: dedupliquer_cases is idempotent: applied to its own result it
\* returns that result, the same elements in the same order
C27_DedupliquerIdempotent ==
    CasesDedupliquees => dedupliquer_cases(resultat) = resultat

\* a list out of which a duplicate was removed and whose order was changed,
\* two boxes of equal area being kept
C27_Witness ==
    /\ CasesDedupliquees
    /\ Len(entree) = 3
    /\ Len(resultat) = 2
    /\ resultat[1].aire = resultat[2].aire
    /\ resultat[1] = entree[2]
    /\ dedupliquer_cases(resultat) = resultat

----------------------------------------------------------------------------
(* app.py: upload, download and the run history                            *)
(* Texts are sequences of characters, so that replace, stem and the        *)
(* joining of names are computed on the characters as Python does.         *)

MaxHorloge == 1      \* seconds the clock advances during a run

\* str.replace(ancien, nouveau): every occurrence, leftmost first, without
\* overlap
RECURSIVE Remplacer(_, _, _)
Remplacer(s, ancien, nouveau) ==
    IF Len(s) < Len(ancien) THEN s
    ELSE IF SubSeq(s, 1, Len(ancien)) = ancien
         THEN nouveau \o Remplacer(SubSeq(s, Len(ancien) + 1, Len(s)),
                                   ancien, nouveau)
         ELSE <<Head(s)>> \o Remplacer(Tail(s), ancien, nouveau)

\* str.strip(caracteres)
RECURSIVE SansTete(_, _)
SansTete(s, caracteres) ==
    IF s # <<>> /\ Head(s) \in caracteres THEN SansTete(Tail(s), caracteres)
    ELSE s

RECURSIVE SansQueue(_, _)
SansQueue(s, caracteres) ==
    IF s # <<>> /\ s[Len(s)] \in caracteres
    THEN SansQueue(SubSeq(s, 1, Len(s) - 1), caracteres)
    ELSE s

\* "_".join(s.split()): the words of s, joined by one underscore
RECURSIVE JoindreMots(_)
JoindreMots(s) ==
    LET t == SansTete(s, {" "})
        fin == IF \E i \in 1..Len(t) : t[i] = " "
               THEN (CHOOSE i \in 1..Len(t) :
                        /\ t[i] = " "
                        /\ \A j \in 1..(i - 1) : t[j] # " ") - 1
               ELSE Len(t)
        reste == SansTete(SubSeq(t, fin + 1, Len(t)), {" "})
    IN  IF t = <<>> THEN <<>>
        ELSE IF reste = <<>> THEN SubSeq(t, 1, fin)
        ELSE SubSeq(t, 1, fin) \o <<"_">> \o JoindreMots(reste)

\* the characters secure_filename keeps: ASCII letters and digits (those
\* the names of the model use), underscore, dot and hyphen
Chiffres == <<"0", "1", "2", "3", "4", "5", "6", "7", "8", "9">>

CaracteresSurs ==
    {"a", "b", "d", "f", "i", "l", "n", "p", "s", "t", "x"}
        \cup Range(Chiffres) \cup {"_", ".", "-"}

EstSur(c) == c \in CaracteresSurs

\* werkzeug's secure_filename, called at line 134: path separators become
\* spaces, the words are joined by underscores, every other character is
\* dropped, leading and trailing dots and underscores are stripped
secure_filename(nom) ==
    LET sans_separateur == [i \in 1..Len(nom) |->
                               IF nom[i] = "/" THEN " " ELSE nom[i]]
    IN  SansQueue(SansTete(SelectSeq(JoindreMots(sans_separateur), EstSur),
                           {".", "_"}),
                  {".", "_"})

\* Path(filename).stem, line 135: the name up to its last dot, when that dot
\* is neither the first nor the last character
Stem(nom) ==
    LET points == {i \in 1..Len(nom) : nom[i] = "."}
        dernier == CHOOSE i \in points : \A j \in points : j <= i
    IN  IF points # {} /\ 1 < dernier /\ dernier < Len(nom)
        THEN SubSeq(nom, 1, dernier - 1)
        ELSE nom

\* strftime('%Y%m%d_%H%M%S'), line 133: digits and one underscore, a
\* different text every second; the date is kept to one digit here and the
\* time to the digit of the second
Strftime(t) == <<"1", "_", Chiffres[t + 1]>>

\* a path: the folder and the name of the file in it
Chemin(dossier, nom) == [dossier |-> dossier, nom |-> nom]

\* Path(...).name, lines 160-161 and 168-169
Name(chemin) == chemin.nom

\* line 137
pdf_path(timestamp, filename) ==
    Chemin("uploads", timestamp \o <<"_">> \o filename)

\* line 141
result_base(timestamp, base_name) ==
    Chemin("results", timestamp \o <<"_">> \o base_name)

\* line 142
json_result(timestamp, base_name) ==
    LET base == result_base(timestamp, base_name)
    IN  Chemin(base.dossier,
               base.nom \o <<"_", "r", "e", "s", "u", "l", "t", "a", "t", "s",
                              ".", "j", "s", "o", "n">>)

\* line 143
json_fusion(timestamp, base_name) ==
    LET base == result_base(timestamp, base_name)
    IN  Chemin(base.dossier,
               base.nom \o <<"_", "f", "u", "s", "i", "o", "n",
                              ".", "j", "s", "o", "n">>)

\* line 144
excel_result(timestamp, base_name) ==
    LET base == result_base(timestamp, base_name)
    IN  Chemin(base.dossier, base.nom \o <<".", "x", "l", "s", "x">>)

\* a file written in a folder replaces the file of that name; the content
\* is the request that wrote it
Ecrire(dossier, nom, contenu) ==
    {f \in dossier : f.nom # nom} \cup {[nom |-> nom, contenu |-> contenu]}

Existe(dossier, nom) == \E f \in dossier : f.nom = nom

\* lines 157-163: the entry appended to the history
Entree(r, date) ==
    [timestamp |-> r.timestamp,
     filename |-> r.filename,
     json |-> Name(json_fusion(r.timestamp, r.base_name)),
     excel |-> Name(excel_result(r.timestamp, r.base_name)),
     date |-> date]

\* lines 166-169: the answer of a successful upload
Succes(r) ==
    [code |-> 200,
     json |-> Name(json_fusion(r.timestamp, r.base_name)),
     excel |-> Remplacer(Name(excel_result(r.timestamp, r.base_name)),
                         <<".", "x", "l", "s", "x">>, <<".", "b", "i", "n">>)]

\* lines 129-130 and 171-172: the answer of an upload that did not succeed
Echec(code) == [code |-> code, json |-> <<>>, excel |-> <<>>]

\* lines 175-187: the download route
download(filename) ==
    LET real_filename ==
            Remplacer(Remplacer(filename, <<".", "b", "i", "n">>,
                                <<".", "x", "l", "s", "x">>),
                      <<".", "d", "a", "t">>, <<".", "x", "l", "s">>)
    IN  [filename |-> filename,
         code |-> IF Existe(RESULTS_FOLDER, real_filename) THEN 200 ELSE 404,
         real_filename |-> real_filename]

varsAnalyse == <<pc, template, pages, page_num, resultats, sortie, image,
                 etapes, page_data, entree, resultat>>

\* the file names a client sends: a plain name, names whose stem holds
\* ".bin", ".xlsx" or ".dat", a name with a path separator
FichiersEnvoyes ==
    { <<"s", ".", "p", "d", "f">>,
      <<"s", ".", "b", "i", "n", ".", "p", "d", "f">>,
      <<"s", ".", "x", "l", "s", "x", ".", "p", "d", "f">>,
      <<"s", ".", "d", "a", "t", "a", ".", "p", "d", "f">>,
      <<"a", "/", "s", ".", "p", "d", "f">> }

\* the names sent when several requests are followed
FichiersConcurrents ==
    { <<"s", ".", "p", "d", "f">>, <<"t", ".", "p", "d", "f">> }

\* the empty text stands for a request without file
SansFichier == <<>>

Repondre(u, reponse) ==
    requete' = [requete EXCEPT ![u].pc = "repondu", ![u].reponse = reponse]

\* lines 128-144: without file the answer is 400; otherwise the time is
\* read, the names are derived and the PDF is stored
RecevoirParmi(u, fichiers) ==
    /\ \E file \in fichiers :
          IF file = SansFichier
          THEN /\ Repondre(u, Echec(400))
               /\ UNCHANGED UPLOAD_FOLDER
          ELSE LET timestamp == Strftime(horloge)
                   filename == secure_filename(file)
                   base_name == Stem(filename)
               IN  /\ requete' = [requete EXCEPT
                          ![u].pc = "detect0",
                          ![u].file = file,
                          ![u].timestamp = timestamp,
                          ![u].filename = filename,
                          ![u].base_name = base_name]
                   /\ UPLOAD_FOLDER' =
                          Ecrire(UPLOAD_FOLDER,
                                 pdf_path(timestamp, filename).nom, u)
    /\ UNCHANGED <<horloge, HISTORY_FILE, RESULTS_FOLDER, telechargement>>
    /\ UNCHANGED varsAnalyse

\* the server takes the requests as they come, numbered in the order of
\* their arrival
Recevoir(u) ==
    /\ requete[u].pc = "attente"
    /\ \A v \in 1..(u - 1) : requete[v].pc # "attente"
    /\ RecevoirParmi(u, FichiersConcurrents)

\* one client sends its requests one after the other, each when the one
\* before is answered
RecevoirEnSerie(u) ==
    /\ requete[u].pc = "attente"
    /\ \A v \in 1..(u - 1) : requete[v].pc = "repondu"
    /\ RecevoirParmi(u, FichiersConcurrents \cup {SansFichier})

\* one upload, of any of the names
RecevoirUnique(u) ==
    /\ requete[u].pc = "attente"
    /\ u = 1
    /\ RecevoirParmi(u, FichiersEnvoyes \cup {SansFichier})

\* faulty variant: the status of the script is not checked
LancerEtape_sans_check(u, fichier, suivante) ==
    /\ \E status \in {0, 1} :
          /\ RESULTS_FOLDER' = IF status = 0
                               THEN Ecrire(RESULTS_FOLDER, fichier.nom, u)
                               ELSE RESULTS_FOLDER
          /\ requete' = [requete EXCEPT ![u].pc = suivante]
    /\ UNCHANGED <<horloge, HISTORY_FILE, UPLOAD_FOLDER, telechargement>>
    /\ UNCHANGED varsAnalyse

\* subprocess.run(..., check=True): the script ends with status 0 after it
\* wrote its output file, or with another status, which raises
\* CalledProcessError, caught at lines 171-172
LancerEtape(u, fichier, suivante) ==
    /\ \E status \in {0, 1} :
          IF status = 0
          THEN /\ RESULTS_FOLDER' = Ecrire(RESULTS_FOLDER, fichier.nom, u)
               /\ requete' = [requete EXCEPT ![u].pc = suivante]
          ELSE /\ Repondre(u, Echec(500))
               /\ UNCHANGED RESULTS_FOLDER
    /\ UNCHANGED <<horloge, HISTORY_FILE, UPLOAD_FOLDER, telechargement>>
    /\ UNCHANGED varsAnalyse

\* lines 148-149
Detect0(u) ==
    /\ requete[u].pc = "detect0"
    /\ LancerEtape(u, json_result(requete[u].timestamp, requete[u].base_name),
                   "fusionner_resultats")

\* lines 150-151
FusionnerResultats(u) ==
    /\ requete[u].pc = "fusionner_resultats"
    /\ LancerEtape(u, json_fusion(requete[u].timestamp, requete[u].base_name),
                   "json2excel")

\* lines 152-153
Json2Excel(u) ==
    /\ requete[u].pc = "json2excel"
    /\ LancerEtape(u, excel_result(requete[u].timestamp, requete[u].base_name),
                   "load_history")

\* lines 156-163: the history is read and the entry appended to the list
\* read
LoadHistory(u) ==
    /\ requete[u].pc = "load_history"
    /\ requete' = [requete EXCEPT
           ![u].pc = "save_history",
           ![u].history = Append(HISTORY_FILE, Entree(requete[u], horloge))]
    /\ UNCHANGED <<horloge, HISTORY_FILE, UPLOAD_FOLDER, RESULTS_FOLDER,
                   telechargement>>
    /\ UNCHANGED varsAnalyse

\* lines 164-169: the list is written back and the answer returned
SaveHistory(u) ==
    /\ requete[u].pc = "save_history"
    /\ HISTORY_FILE' = requete[u].history
    /\ Repondre(u, Succes(requete[u]))
    /\ UNCHANGED <<horloge, UPLOAD_FOLDER, RESULTS_FOLDER, telechargement>>
    /\ UNCHANGED varsAnalyse

\* datetime.now() advances
Tic ==
    /\ horloge < MaxHorloge
    /\ horloge' = horloge + 1
    /\ UNCHANGED <<HISTORY_FILE, UPLOAD_FOLDER, RESULTS_FOLDER, requete,
                   telechargement>>
    /\ UNCHANGED varsAnalyse

\* the names a client asks the download route for: those an upload
\* returned, those of the history, and a name nothing returned
NomsDemandes ==
    {requete[u].reponse.json : u \in {v \in Uploads :
                                         requete[v].reponse.code = 200}}
        \cup {requete[u].reponse.excel : u \in {v \in Uploads :
                                         requete[v].reponse.code = 200}}
        \cup {HISTORY_FILE[i].json : i \in 1..Len(HISTORY_FILE)}
        \cup {HISTORY_FILE[i].excel : i \in 1..Len(HISTORY_FILE)}
        \cup {<<"x">>}

\* lines 174-187
Telecharger ==
    /\ \E filename \in NomsDemandes : telechargement' = download(filename)
    /\ UNCHANGED <<horloge, HISTORY_FILE, UPLOAD_FOLDER, RESULTS_FOLDER,
                   requete>>
    /\ UNCHANGED varsAnalyse

InitUpload ==
    /\ pc = "serveur"
    /\ template = TemplateVide
    /\ pages = <<>>
    /\ page_num = 1
    /\ resultats = <<>>
    /\ sortie = SortieVide
    /\ image = ImageNulle
    /\ etapes = <<>>
    /\ page_data = [page |-> 0]
    /\ entree = <<>>
    /\ resultat = <<>>
    /\ ServeurAuDepart

\* one client: uploads one after the other
NextUpload ==
    \/ \E u \in Uploads : RecevoirEnSerie(u)
    \/ \E u \in Uploads : Detect0(u)
    \/ \E u \in Uploads : FusionnerResultats(u)
    \/ \E u \in Uploads : Json2Excel(u)
    \/ \E u \in Uploads : LoadHistory(u)
    \/ \E u \in Uploads : SaveHistory(u)
    \/ Tic

SpecUpload == InitUpload /\ [][NextUpload]_vars

\* one upload, and the downloads a client asks for before and after it
NextDownload ==
    \/ \E u \in Uploads : RecevoirUnique(u)
    \/ \E u \in Uploads : Detect0(u)
    \/ \E u \in Uploads : FusionnerResultats(u)
    \/ \E u \in Uploads : Json2Excel(u)
    \/ \E u \in Uploads : LoadHistory(u)
    \/ \E u \in Uploads : SaveHistory(u)
    \/ Tic
    \/ Telecharger

SpecDownload == InitUpload /\ [][NextDownload]_vars

\* several clients: the handlers of their uploads run interleaved
NextConcurrent ==
    \/ \E u \in Uploads : Recevoir(u)
    \/ \E u \in Uploads : Detect0(u)
    \/ \E u \in Uploads : FusionnerResultats(u)
    \/ \E u \in Uploads : Json2Excel(u)
    \/ \E u \in Uploads : LoadHistory(u)
    \/ \E u \in Uploads : SaveHistory(u)
    \/ Tic

SpecConcurrent == InitUpload /\ [][NextConcurrent]_vars

----------------------------------------------------------------------------
(* Claims about the upload handler, the history and the download route     *)

\* the files of the request u, as the pipeline writes them
FichierPDF(u) ==
    [nom |-> pdf_path(requete[u].timestamp, requete[u].filename).nom,
     contenu |-> u]

FichierResultats(u) ==
    [nom |-> json_result(requete[u].timestamp, requete[u].base_name).nom,
     contenu |-> u]

FichierFusion(u) ==
    [nom |-> json_fusion(requete[u].timestamp, requete[u].base_name).nom,
     contenu |-> u]

FichierExcel(u) ==
    [nom |-> excel_result(requete[u].timestamp, requete[u].base_name).nom,
     contenu |-> u]

EcritDansResults(f) == f \in RESULTS_FOLDER' /\ f \notin RESULTS_FOLDER

Repond(u) == requete[u].pc # "repondu" /\ requete'[u].pc = "repondu"

ToutesRepondues == \A u \in Uploads : requete[u].pc = "repondu"

Reussies == {u \in Uploads : requete[u].reponse.code = 200}

\* the history holds one entry for every upload that succeeded
HistoriqueComplet ==
    /\ Len(HISTORY_FILE) = Cardinality(Reussies)
    /\ \A u \in Reussies :
          \E i \in 1..Len(HISTORY_FILE) :
             /\ HISTORY_FILE[i].timestamp = requete[u].timestamp
             /\ HISTORY_FILE[i].filename = requete[u].filename

\* the PDF and the result files of every upload that succeeded are those
\* it wrote
FichiersIntacts ==
    \A u \in Reussies :
       /\ FichierPDF(u) \in UPLOAD_FOLDER
       /\ {FichierResultats(u), FichierFusion(u), FichierExcel(u)}
             \subseteq RESULTS_FOLDER

\* C29: after any interleaving of concurrent uploads, once every request is
\* answered, the history holds one entry for every upload whose pipeline
\* succeeded, and the stored PDF and the result files of each of them are
\* the ones that upload wrote, not those of another upload.
C29_Original ==
    ToutesRepondues => HistoriqueComplet /\ FichiersIntacts

\* the download of a name asked for resolves to the file f of results/
ResoutVers(f) ==
    /\ telechargement.code = 200
    /\ telechargement.real_filename = f.nom
    /\ f \in RESULTS_FOLDER

\* C30: for every uploaded file name, the JSON name and the Excel name a
\* successful upload returned (the Excel name with ".xlsx" rewritten to
\* ".bin"), passed to the download route, resolve to the result files the
\* pipeline wrote for that upload: the download does not answer 404 for
\* a name the upload returned.
C30_Original ==
    \A u \in Reussies :
       /\ telechargement.filename = requete[u].reponse.json
             => ResoutVers(FichierFusion(u))
       /\ telechargement.filename = requete[u].reponse.excel
             => ResoutVers(FichierExcel(u))
====
